---- MODULE Spec2Model ----
(***************************************************************************)
(* RekaKata: the response-structuring pipeline of PromptEngine and the     *)
(* input normalisation of InputValidator.                                  *)
(*                                                                         *)
(* A text is a sequence of fragments (TLA+ strings); the Python string it  *)
(* denotes is the concatenation of its fragments.  The fragments are       *)
(* chosen so that every literal the code looks for ("HASHTAGS", "---",     *)
(* "javascript:" = "java" + "script:", ...) is a concatenation of whole    *)
(* fragments, so that substring tests, splits and the regular expressions  *)
(* of the code act on fragment sequences exactly as they act on the        *)
(* characters.  "\n" is the line break, " " the blank.                     *)
(***************************************************************************)
EXTENDS Integers, Sequences, FiniteSets, TLC

VARIABLES
    pc,                 \* the operation that has run: "start" before any
    raw_response,       \* the generated text handed to the structurer
    trending_elements,  \* the trending bundle handed to the structurer
    user_input,         \* the raw text handed to InputValidator.validate
    detect_outcome,     \* what langdetect.detect did in the last validate
    data,               \* TrendingInjector.data, the catalog in memory
    file,               \* the document stored at TrendingInjector.data_path
    entities,           \* the argument of the last inject or update_data call
    readers,            \* per worker thread inside inject: the reads done, the bundle so far
    last_generated,     \* PromptEngine.last_generated: <<>> for None, <<outputs>> otherwise
    exported,           \* the formats of the files export_last_generated has written
    calls,              \* the collaborators the last generate_prompt called, in order
    bot,                \* TelegramBot: the requests in flight and what each user was sent
    ret                 \* the value the operation returned

injector_vars == <<data, file, entities, readers>>

engine_vars == <<last_generated, exported, calls, bot>>

vars ==
    <<pc, raw_response, trending_elements, user_input, detect_outcome, injector_vars,
      engine_vars, ret>>

(***************************************************************************)
(* Bounds of the model.                                                    *)
(***************************************************************************)
MaxLines == 4           \* lines of a generated text
MaxBundleTags == 16     \* hashtags of the longest trending bundle
MaxFrags == 4           \* fragments of a raw user input to validate
MaxDangerFrags == 4     \* fragments of a raw user input to _sanitize
BlockLen == 1994        \* characters of the filler run "Z"

(***************************************************************************)
(* Constants of the program.                                               *)
(***************************************************************************)
HashtagLimit == 15
min_length == 5
max_length == 2000

NA == <<"N/A">>
None == "None"

\* no TrendingInjector and no PromptEngine has been constructed
NoInjector == data = None /\ file = None /\ entities = None /\ readers = <<>>

NoEngine == last_generated = <<>> /\ exported = <<>> /\ calls = <<>> /\ bot = <<>>

(***************************************************************************)
(* Python's str operations, on fragment sequences.                         *)
(***************************************************************************)
IsWs(t) == t \in {" ", "\n"}

Contains(s, pat) ==
    \E i \in 1..(Len(s) - Len(pat) + 1) : SubSeq(s, i, i + Len(pat) - 1) = pat

StartsWith(s, pat) ==
    Len(s) >= Len(pat) /\ SubSeq(s, 1, Len(pat)) = pat

Take(s, n) == SubSeq(s, 1, IF Len(s) < n THEN Len(s) ELSE n)


\* s.strip()
Strip(s) ==
    LET idx == {i \in 1..Len(s) : ~IsWs(s[i])}
    IN  IF idx = {} THEN <<>>
        ELSE SubSeq(s, CHOOSE i \in idx : \A j \in idx : i <= j,
                       CHOOSE i \in idx : \A j \in idx : i >= j)

\* s.strip(c) for a one-character c
StripChar(s, c) ==
    LET idx == {i \in 1..Len(s) : s[i] # c}
    IN  IF idx = {} THEN <<>>
        ELSE SubSeq(s, CHOOSE i \in idx : \A j \in idx : i <= j,
                       CHOOSE i \in idx : \A j \in idx : i >= j)

\* s.split(sep) for a one-fragment sep: n separators give n + 1 parts
RECURSIVE SplitOn(_, _)
SplitOn(s, sep) ==
    LET idx == {i \in 1..Len(s) : s[i] = sep}
    IN  IF idx = {} THEN <<s>>
        ELSE LET i == CHOOSE i \in idx : \A j \in idx : i <= j
             IN  <<SubSeq(s, 1, i - 1)>> \o SplitOn(SubSeq(s, i + 1, Len(s)), sep)

\* s.split(): the maximal runs of non-whitespace
RECURSIVE SplitWs(_)
SplitWs(s) ==
    LET t == Strip(s)
        ws == {i \in 1..Len(t) : IsWs(t[i])}
    IN  IF t = <<>> THEN <<>>
        ELSE IF ws = {} THEN <<t>>
        ELSE LET i == CHOOSE i \in ws : \A j \in ws : i <= j
             IN  <<SubSeq(t, 1, i - 1)>> \o SplitWs(SubSeq(t, i + 1, Len(t)))

\* sep.join(parts)
RECURSIVE Join(_, _)
Join(parts, sep) ==
    IF parts = <<>> THEN <<>>
    ELSE IF Len(parts) = 1 THEN parts[1]
    ELSE parts[1] \o sep \o Join(Tail(parts), sep)

\* the concatenation of a sequence of sequences
RECURSIVE Flatten(_)
Flatten(ss) == IF ss = <<>> THEN <<>> ELSE ss[1] \o Flatten(Tail(ss))

\* the generated texts of at most n lines over a pool of lines
TextsOver(pool, n) ==
    {Join(ls, <<"\n">>) : ls \in UNION {[1..k -> pool] : k \in 0..n}}

(***************************************************************************)
(* PromptEngine._extract_hashtags                                          *)
(***************************************************************************)
HasHashtagsMarker(s) == Contains(s, <<"HASHTAGS">>) \/ Contains(s, <<"Hashtags">>)

\* the test of lines 278-280 that ends the hashtag section
IsNextSectionHeader(line) ==
    LET s == Strip(line)
    IN  /\ StartsWith(s, <<"#">>)
        /\ ~StartsWith(s, <<"#", " ">>)
        /\ ~Contains(Tail(s), <<"#">>)

\* the loop of lines 271-288 from line i on: the stripped lines collected
RECURSIVE CollectHashtagLines(_, _, _)
CollectHashtagLines(lines, i, in_section) ==
    IF i > Len(lines) THEN <<>>
    ELSE IF HasHashtagsMarker(lines[i]) THEN CollectHashtagLines(lines, i + 1, TRUE)
    ELSE IF ~in_section THEN CollectHashtagLines(lines, i + 1, FALSE)
    ELSE IF IsNextSectionHeader(lines[i]) THEN <<>>
    ELSE IF Contains(lines[i], <<"---">>) THEN <<>>
    ELSE IF Strip(lines[i]) # <<>>
         THEN <<Strip(lines[i])>> \o CollectHashtagLines(lines, i + 1, TRUE)
    ELSE CollectHashtagLines(lines, i + 1, TRUE)

NotHash(t) == t # "#"

\* lines 293-296: the words that start with "#", every "#" of them removed
RECURSIVE WordsToHashtags(_)
WordsToHashtags(words) ==
    IF words = <<>> THEN <<>>
    ELSE (IF StartsWith(words[1], <<"#">>) THEN <<SelectSeq(words[1], NotHash)>> ELSE <<>>)
         \o WordsToHashtags(Tail(words))

RECURSIVE ParseHashtagLines(_)
ParseHashtagLines(hashtag_lines) ==
    IF hashtag_lines = <<>> THEN <<>>
    ELSE WordsToHashtags(SplitWs(hashtag_lines[1])) \o ParseHashtagLines(Tail(hashtag_lines))

\* trending_elements.get("hashtags", [])
BundleHashtags(te) == IF "hashtags" \in DOMAIN te THEN te.hashtags ELSE <<>>

HashtagFallback(te) == Take(BundleHashtags(te), HashtagLimit)

_extract_hashtags(raw, te) ==
    LET hashtags ==
            IF HasHashtagsMarker(raw)
            THEN ParseHashtagLines(CollectHashtagLines(SplitOn(raw, "\n"), 1, FALSE))
            ELSE <<>>
    IN  IF hashtags # <<>> THEN hashtags ELSE HashtagFallback(te)

(***************************************************************************)
(* PromptEngine._extract_master_prompt                                     *)
(***************************************************************************)
MasterPromptMarker == <<"MASTER", " ", "PROMPT">>

\* the loop of lines 177-187 from line i on: the cleaned lines collected
RECURSIVE CollectPromptLines(_, _, _)
CollectPromptLines(lines, i, in_section) ==
    IF i > Len(lines) THEN <<>>
    ELSE IF Contains(lines[i], MasterPromptMarker) THEN CollectPromptLines(lines, i + 1, TRUE)
    ELSE IF ~in_section THEN CollectPromptLines(lines, i + 1, FALSE)
    ELSE IF StartsWith(Strip(lines[i]), <<"#">>) \/ Contains(lines[i], <<"---">>) THEN <<>>
    ELSE IF Strip(lines[i]) # <<>>
         THEN <<StripChar(Strip(lines[i]), "\"")>> \o CollectPromptLines(lines, i + 1, TRUE)
    ELSE CollectPromptLines(lines, i + 1, TRUE)

\* line 191 without its test for the empty text
FirstLineUnguarded(raw) == SplitOn(raw, "\n")[1]

\* line 191: raw_response.split("\n")[0] if raw_response else "N/A"
FirstLineOrNA(raw) == IF raw # <<>> THEN SplitOn(raw, "\n")[1] ELSE NA

_extract_master_prompt(raw) ==
    IF Contains(raw, MasterPromptMarker)
    THEN Join(CollectPromptLines(SplitOn(raw, "\n"), 1, FALSE), <<" ">>)
    ELSE FirstLineOrNA(raw)

(***************************************************************************)
(* PromptEngine._extract_visual_specs                                      *)
(***************************************************************************)
SpecKeys == {"Style", "Camera", "Lighting", "Aspect Ratio", "Mood"}

\* a key of the schema as the fragments of a table cell
KeyText(k) == IF k = "Aspect Ratio" THEN <<"Aspect", " ", "Ratio">> ELSE <<k>>

DefaultSpecs == [k \in SpecKeys |-> IF k = "Aspect Ratio" THEN <<"9:16">> ELSE NA]

HasVisualGate(raw) ==
    \/ Contains(raw, <<"VISUAL", " ", "SPECIFICATIONS">>)
    \/ Contains(raw, <<"Visual", " ", "Specifications">>)

HasVisualMarker(line) == Contains(line, <<"VISUAL">>) \/ Contains(line, <<"Visual">>)

NonEmpty(p) == p # <<>>

\* line 218: [p.strip() for p in line.split("|") if p.strip()]
RowParts(line) ==
    LET cells == SplitOn(line, "|")
    IN  SelectSeq([i \in 1..Len(cells) |-> Strip(cells[i])], NonEmpty)

\* lines 216-223 without the test `key in specs`: any first cell becomes a key
ApplyRowAnyKey(specs, line) ==
    LET parts == RowParts(line)
        name == IF \E k \in SpecKeys : KeyText(k) = parts[1]
                THEN CHOOSE k \in SpecKeys : KeyText(k) = parts[1]
                ELSE parts[1][1]
    IN  IF Len(parts) >= 2 THEN (name :> parts[2]) @@ specs ELSE specs

\* lines 216-223: a table row's assignment
ApplyRow(specs, line) ==
    LET parts == RowParts(line)
    IN  IF Len(parts) >= 2 /\ \E k \in SpecKeys : KeyText(k) = parts[1]
        THEN [specs EXCEPT ![CHOOSE k \in SpecKeys : KeyText(k) = parts[1]] = parts[2]]
        ELSE specs

\* the loop of lines 208-226 from line i on
RECURSIVE ScanVisualLines(_, _, _, _)
ScanVisualLines(lines, i, in_section, specs) ==
    IF i > Len(lines) THEN specs
    ELSE IF HasVisualMarker(lines[i]) THEN ScanVisualLines(lines, i + 1, TRUE, specs)
    ELSE IF in_section /\ Contains(lines[i], <<"---">>)
         THEN ScanVisualLines(lines, i + 1, in_section, specs)
    ELSE LET after == IF in_section /\ Contains(lines[i], <<"|">>)
                      THEN ApplyRow(specs, lines[i]) ELSE specs
         IN  IF in_section /\ Contains(lines[i], <<"#">>) /\ ~Contains(lines[i], <<"VISUAL">>)
             THEN after
             ELSE ScanVisualLines(lines, i + 1, in_section, after)

_extract_visual_specs(raw) ==
    IF HasVisualGate(raw)
    THEN ScanVisualLines(SplitOn(raw, "\n"), 1, FALSE, DefaultSpecs)
    ELSE DefaultSpecs

(***************************************************************************)
(* PromptEngine._extract_script                                            *)
(*                                                                         *)
(* Each pattern of lines 245-249 has the shape                             *)
(*   (?:^|\n)(?:##|\*\*|###)?\s*(?:WORDS).*?(?:\n|$)(.*?)(?=\n(?:##|\*\*|###)?\s*(?:STOPS)|$) *)
(* searched with re.DOTALL | re.IGNORECASE.                                *)
(***************************************************************************)
\* str.upper() and str.lower() on the fragments that have letters in both cases
Upper(t) ==
    CASE t \in {"script", "Script"} -> "SCRIPT"
      [] t \in {"hook", "Hook"} -> "HOOK"
      [] t \in {"body", "Body"} -> "BODY"
      [] t \in {"cta", "Cta"} -> "CTA"
      [] OTHER -> t

Lower(t) ==
    CASE t \in {"SCRIPT", "Script"} -> "script"
      [] t \in {"HOOK", "Hook"} -> "hook"
      [] t \in {"BODY", "Body"} -> "body"
      [] t \in {"CTA", "Cta"} -> "cta"
      [] t = "Call" -> "call"
      [] t = "Action" -> "action"
      [] t \in {"JAVA", "Java"} -> "java"
      [] t \in {"SCRIPT:", "Script:"} -> "script:"
      [] t \in {"ON", "On"} -> "on"
      [] t \in {"DATA:", "Data:"} -> "data:"
      [] t \in {"TEXT/HTML"} -> "text/html"
      [] t \in {"Review", "REVIEW"} -> "review"
      [] t \in {"Teen", "TEEN"} -> "teen"
      [] t = "Topic" -> "topic"
      [] t = "S" -> "s"
      [] OTHER -> t

UpperText(s) == [i \in 1..Len(s) |-> Upper(s[i])]
LowerText(s) == [i \in 1..Len(s) |-> Lower(s[i])]

\* line 236 letting a text through that has a Hook heading but no marker
HasScriptOrHookMarker(raw) ==
    Contains(UpperText(raw), <<"SCRIPT">>) \/ Contains(UpperText(raw), <<"HOOK">>)

\* line 236: "SCRIPT" in raw_response.upper()
HasScriptMarker(raw) == Contains(UpperText(raw), <<"SCRIPT">>)

\* line 241: raw_response.replace("\r\n", "\n")
RECURSIVE NormalizeLineEndings(_)
NormalizeLineEndings(s) ==
    IF s = <<>> THEN <<>>
    ELSE IF StartsWith(s, <<"\r", "\n">>) THEN <<"\n">> \o NormalizeLineEndings(SubSeq(s, 3, Len(s)))
    ELSE <<s[1]>> \o NormalizeLineEndings(Tail(s))

\* the literal `lit` stands at position i of s, in any letter case
LiteralAt(s, i, lit) ==
    /\ i + Len(lit) - 1 <= Len(s)
    /\ LowerText(SubSeq(s, i, i + Len(lit) - 1)) = LowerText(lit)

\* the positions after (?:##|\*\*|###)? read from position i
AfterOptionalMarker(s, i) ==
    {i} \cup {i + Len(m) : m \in {mm \in {<<"#", "#">>, <<"*", "*">>, <<"#", "#", "#">>} :
                                    LiteralAt(s, i, mm)}}

\* the position after \s* read greedily from position i
RECURSIVE SkipWs(_, _)
SkipWs(s, i) == IF i <= Len(s) /\ IsWs(s[i]) THEN SkipWs(s, i + 1) ELSE i

\* the positions after (?:##|\*\*|###)?\s*(?:words) read from position i: the
\* word is no whitespace, so \s* can only stop where the whitespace ends
HeadingEnds(s, i, words) ==
    {SkipWs(s, jw[1]) + Len(jw[2]) :
        jw \in {p \in AfterOptionalMarker(s, i) \X words :
                    LiteralAt(s, SkipWs(s, p[1]), p[2])}}

Min(S) == CHOOSE x \in S : \A y \in S : x <= y

\* $ without re.MULTILINE: the end of the text, or just before a final line break
AtEnd(s, p) == p = Len(s) + 1 \/ (p = Len(s) /\ s[p] = "\n")

\* the lookahead (?=\n(?:##|\*\*|###)?\s*(?:stops)|$) at position p
StopsAt(s, p, stops) ==
    \/ p <= Len(s) /\ s[p] = "\n" /\ HeadingEnds(s, p + 1, stops) # {}
    \/ AtEnd(s, p)

\* re.search(pattern, text).group(1), or None: the leftmost heading line start,
\* the heading line skipped to its line break, then the shortest capture that
\* ends at a stop
SectionCapture(s, words, stops) ==
    LET starts == {h \in 1..(Len(s) + 1) :
                      /\ h = 1 \/ s[h - 1] = "\n"
                      /\ HeadingEnds(s, h, words) # {}}
    IN  IF starts = {} THEN None
        ELSE LET e == Min(HeadingEnds(s, Min(starts), words))
                 nl == {p \in e..Len(s) : s[p] = "\n"}
                 c == IF nl = {} THEN Len(s) + 1 ELSE Min(nl) + 1
                 stop == Min({p \in c..(Len(s) + 1) : StopsAt(s, p, stops)})
             IN  SubSeq(s, c, stop - 1)

\* line 256: content.strip('"').strip("'").strip("*")
CleanContent(content) == StripChar(StripChar(StripChar(Strip(content), "\""), "'"), "*")

SectionWords(section) ==
    CASE section = "hook" -> {<<"Hook">>, <<"HOOK">>}
      [] section = "body" -> {<<"Body">>, <<"BODY">>}
      [] section = "cta" -> {<<"CTA">>, <<"Cta">>, <<"Call", " ", "to", " ", "Action">>}

SectionStops(section) ==
    CASE section = "hook" -> {<<"Body">>, <<"BODY">>, <<"CTA">>, <<"Cta">>}
      [] section = "body" -> {<<"CTA">>, <<"Cta">>, <<"Hook">>, <<"HOOK">>}
      [] section = "cta" -> {<<"#">>, <<"---">>}

\* lines 251-258 for one section
ExtractSection(text, section) ==
    LET m == SectionCapture(text, SectionWords(section), SectionStops(section))
    IN  IF m = None THEN NA
        ELSE IF CleanContent(m) # <<>> THEN CleanContent(m) ELSE NA

DefaultScript == [hook |-> NA, body |-> NA, cta |-> NA]

_extract_script(raw) ==
    IF ~HasScriptMarker(raw) THEN DefaultScript
    ELSE LET text == NormalizeLineEndings(raw)
         IN  [hook |-> ExtractSection(text, "hook"),
              body |-> ExtractSection(text, "body"),
              cta |-> ExtractSection(text, "cta")]

(***************************************************************************)
(* PromptEngine._structure_result                                          *)
(***************************************************************************)
\* ai_result.get("raw_response", "")
RawResponseOf(ai_result) ==
    IF "raw_response" \in DOMAIN ai_result THEN ai_result.raw_response ELSE <<>>

_structure_result(ai_result, te, language) ==
    LET raw == RawResponseOf(ai_result)
    IN  [master_prompt |-> _extract_master_prompt(raw),
         visual_specifications |-> _extract_visual_specs(raw),
         script |-> _extract_script(raw),
         hashtags |-> _extract_hashtags(raw, te),
         language |-> language,
         raw_response |-> raw]

(***************************************************************************)
(* InputValidator                                                          *)
(***************************************************************************)
\* the number of characters of a fragment; "Z" is a run of BlockLen letters z
CharLen(t) ==
    CASE t = "Z" -> BlockLen
      [] t \in {"java", "JAVA"} -> 4
      [] t \in {"script:", "SCRIPT:"} -> 7
      [] t \in {"on", "ON"} -> 2
      [] t = "data:" -> 5
      [] t = "text/html" -> 9
      [] t \in {"review", "Review"} -> 6
      [] t \in {"teen", "Teen"} -> 4
      [] t \in {"ness", "phone", "hand"} -> 4
      [] t \in {"sad", "mom"} -> 3
      [] t = "promo" -> 5
      [] t = "si" -> 2
      [] t = "skincare" -> 8
      [] t = "kincare" -> 7
      [] t = "script" -> 6
      [] t = "alert" -> 5
      [] OTHER -> 1

\* len(text)
RECURSIVE StrLen(_)
StrLen(s) == IF s = <<>> THEN 0 ELSE CharLen(s[1]) + StrLen(Tail(s))

\* the fragments made of word characters only (\w)
IsWord(t) ==
    t \in {"java", "JAVA", "on", "ON", "x", "y", "Z", "review", "skincare", "script", "alert",
           "Review", "teen", "Teen", "s", "S", "sad", "ness", "mom", "promo", "si", "hand",
           "phone", "kincare"}

\* re.match(pattern, s[i:]): the number of fragments matched at position i, 0 for none
MatchLen(pattern, s, i) ==
    CASE pattern = "<[^>]+>" ->
            LET gt == {j \in (i + 1)..Len(s) : s[j] = ">"}
            IN  IF s[i] = "<" /\ gt # {} /\ Min(gt) >= i + 2 THEN Min(gt) - i + 1 ELSE 0
      [] pattern = "javascript:" ->
            IF LiteralAt(s, i, <<"java", "script:">>) THEN 2 ELSE 0
      [] pattern = "on\\w+\\s*=" ->
            LET nonword == {j \in (i + 1)..(Len(s) + 1) : j = Len(s) + 1 \/ ~IsWord(s[j])}
                e == SkipWs(s, Min(nonword))
            IN  IF Lower(s[i]) = "on" /\ Min(nonword) >= i + 2 /\ e <= Len(s) /\ s[e] = "="
                THEN e - i + 1 ELSE 0
      [] pattern = "data:text/html" ->
            IF LiteralAt(s, i, <<"data:", "text/html">>) THEN 2 ELSE 0

\* re.sub(pattern, "", s) from position i on: the leftmost matches, left to right,
\* none overlapping another, each removed once
RECURSIVE ReSubFrom(_, _, _)
ReSubFrom(pattern, s, i) ==
    IF i > Len(s) THEN <<>>
    ELSE IF MatchLen(pattern, s, i) > 0 THEN ReSubFrom(pattern, s, i + MatchLen(pattern, s, i))
    ELSE <<s[i]>> \o ReSubFrom(pattern, s, i + 1)

ReSub(pattern, s) == ReSubFrom(pattern, s, 1)

\* line 65: " ".join(text.split())
CollapseWhitespace(text) == Join(SplitWs(text), <<" ">>)

\* lines 71-77: the dangerous patterns, removed one after the other
RemoveDangerous(s) ==
    ReSub("data:text/html", ReSub("on\\w+\\s*=", ReSub("javascript:", s)))

_sanitize(text) ==
    Strip(RemoveDangerous(ReSub("<[^>]+>", CollapseWhitespace(text))))

\* line 91 with the upper bound excluded
_validate_length_exclusive(text) == min_length <= StrLen(text) /\ StrLen(text) < max_length

_validate_length(text) == min_length <= StrLen(text) /\ StrLen(text) <= max_length

\* what langdetect.detect may do on a text: return a language code, or raise
DetectOutcomes == {"en", "id", "LangDetectException"}

\* _detect_language without the except clause: the failure is what comes out
_detect_language_unguarded(detected) == detected

_detect_language(detected) == IF detected = "LangDetectException" THEN "en" ELSE detected

\* the keyword lists: one entry per pattern, its alternatives in the order the
\* pattern tries them, each alternative spelled in fragments
product_keywords ==
    <<
       << <<"s", "kincare">> >>,
       << <<"makeup">> >>,
       << <<"clothing">>, <<"pakaian">>, <<"baju">> >>,
       << <<"food">>, <<"makanan">> >>,
       << <<"drink">>, <<"minuman">> >>,
       << <<"gadget">> >>,
       << <<"phone">>, <<"hand", "phone">>, <<"hp">> >>,
       << <<"shoes">>, <<"sepatu">> >>,
       << <<"bag">>, <<"tas">> >>,
       << <<"book">>, <<"buku">> >>
    >>

topic_keywords ==
    <<
       << <<"review">> >>,
       << <<"tutorial">> >>,
       << <<"tips">> >>,
       << <<"vlog">> >>,
       << <<"challenge">> >>,
       << <<"reaction">> >>,
       << <<"unboxing">> >>,
       << <<"testimoni">>, <<"testimoni">>, <<"review">> >>,
       << <<"promo", "si">>, <<"promo", "si">>, <<"promo">> >>
    >>

emotion_keywords ==
    <<
       << <<"excited">>, <<"exciting">>, <<"seru">> >>,
       << <<"happy">>, <<"joyful">>, <<"bahagia">>, <<"senang">> >>,
       << <<"sad">>, <<"sad", "ness">>, <<"sedih">> >>,
       << <<"angry">>, <<"furious">>, <<"marah">> >>,
       << <<"funny">>, <<"humorous">>, <<"lucu">> >>,
       << <<"inspiring">>, <<"motivational">>, <<"inspiratif">>, <<"motivasi">> >>,
       << <<"calm">>, <<"peaceful">>, <<"tenang">> >>,
       << <<"energetic">>, <<"energetic">> >>
    >>

audience_keywords ==
    <<
       << <<"teen">>, <<"teen", "s">>, <<"remaja">> >>,
       << <<"kids">>, <<"children">>, <<"anak-anak">> >>,
       << <<"adult">>, <<"adult", "s">>, <<"dewasa">> >>,
       << <<"student">>, <<"student", "s">>, <<"mahasiswa">>, <<"pelajar">> >>,
       << <<"mom">>, <<"mother">>, <<"mom", "s">>, <<"ibu">> >>,
       << <<"professionals">>, <<"profesional">> >>,
       << <<"gamer">>, <<"gamer", "s">> >>
    >>

\* the first alternative of the pattern that matches at position i: its length
\* in fragments, 0 for none
AlternativeAt(pattern, s, i) ==
    LET hits == {k \in 1..Len(pattern) :
                    /\ i + Len(pattern[k]) - 1 <= Len(s)
                    /\ SubSeq(s, i, i + Len(pattern[k]) - 1) = pattern[k]}
    IN  IF hits = {} THEN 0 ELSE Len(pattern[Min(hits)])

\* re.findall(keyword, s) from position i on: the matches left to right, none
\* overlapping another
RECURSIVE FindAllFrom(_, _, _)
FindAllFrom(pattern, s, i) ==
    IF i > Len(s) THEN <<>>
    ELSE IF AlternativeAt(pattern, s, i) > 0
         THEN <<SubSeq(s, i, i + AlternativeAt(pattern, s, i) - 1)>>
                \o FindAllFrom(pattern, s, i + AlternativeAt(pattern, s, i))
    ELSE FindAllFrom(pattern, s, i + 1)

\* the matches of every pattern of the list over text.lower(), in one list
RECURSIVE AllMatches(_, _)
AllMatches(keywords, text_lower) ==
    IF keywords = <<>> THEN <<>>
    ELSE FindAllFrom(keywords[1], text_lower, 1) \o AllMatches(Tail(keywords), text_lower)

\* list(set(matches)): the distinct matches, in no order the caller can rely on
FindKeywords(keywords, text) ==
    LET matches == AllMatches(keywords, LowerText(text))
    IN  {matches[i] : i \in 1..Len(matches)}

\* _extract_entities without the last category
_extract_entities_three(text) ==
    [products |-> FindKeywords(product_keywords, text),
     topics |-> FindKeywords(topic_keywords, text),
     emotions |-> FindKeywords(emotion_keywords, text)]

_extract_entities(text) ==
    [products |-> FindKeywords(product_keywords, text),
     topics |-> FindKeywords(topic_keywords, text),
     emotions |-> FindKeywords(emotion_keywords, text),
     target_audience |-> FindKeywords(audience_keywords, text)]

\* line 34 naming the lower bound only
LengthErrorLowerOnly == <<"Input must be at least ", ToString(min_length), " characters">>

\* line 34: f"Input must be between {self.min_length} and {self.max_length} characters"
LengthError ==
    <<"Input must be between ", ToString(min_length), " and ", ToString(max_length),
      " characters">>

\* validate, for the outcome `detected` of the language detector
validate(text, detected) ==
    LET sanitized == _sanitize(text)
    IN  IF ~_validate_length(sanitized)
        THEN [valid |-> FALSE, error |-> LengthError, sanitized |-> sanitized]
        ELSE [valid |-> TRUE, sanitized |-> sanitized,
              language |-> _detect_language(detected),
              entities |-> _extract_entities(sanitized),
              length |-> StrLen(sanitized)]

(***************************************************************************)
(* TrendingInjector.  A JSON document is [type |-> "dict", value |-> d]    *)
(* with d a function from keys to values, or [type |-> "list", ...]; a     *)
(* mapping whose order the code walks (hashtags) is the sequence of its    *)
(* <<key, value>> items; an Optional is <<>> for None and <<v>> for v; an   *)
(* exception that leaves a method is the record [raised |-> its class].    *)
(***************************************************************************)
Raised(exception) == [raised |-> exception]

HasRaised(r) == "raised" \in DOMAIN r

Dict(d) == [type |-> "dict", value |-> d]

\* d.get(key, default)
Get(d, key, default) == IF key \in DOMAIN d THEN d[key] ELSE default

\* mapping.get(key, default) on a mapping kept as its items
RECURSIVE ItemsGet(_, _, _)
ItemsGet(items, key, default) ==
    IF items = <<>> THEN default
    ELSE IF items[1][1] = key THEN items[1][2]
    ELSE ItemsGet(Tail(items), key, default)

Tag(name) == <<"#", name>>

\* lines 49-69
FallbackData ==
    Dict([formats |->
            << [name |-> "POV", platforms |-> <<"tiktok", "instagram", "youtube">>,
                keywords |-> << <<"pov">> >>],
               [name |-> "Tutorial", platforms |-> <<"tiktok", "instagram", "youtube">>,
                keywords |-> << <<"tutorial">> >>] >>,
          visual_styles |->
            << [name |-> "Clean", keywords |-> << <<"clean">> >>, style |-> "minimalist",
                camera |-> "close-up"],
               [name |-> "Cinematic", keywords |-> << <<"cinematic">> >>,
                style |-> "dramatic", camera |-> "wide shots"] >>,
          hooks |-> <<"Ini rahasianya!", "Coba deh ini!">>,
          hashtags |-> << << <<"general">>, <<Tag("viral"), Tag("fyp"), Tag("trending")>> >> >>,
          cta |-> <<"Follow untuk lebih lanjut", "Save biar nggak lupa!">>])

\* _load_data on the stored document: the catalog, or the exception that leaves
\* the constructor.  "missing" is FileNotFoundError, "invalid_json" is
\* JSONDecodeError, "unreadable" is any other failure of open() or of decoding
\* the bytes (IsADirectoryError, PermissionError, UnicodeDecodeError).
_load_data(stored) ==
    CASE stored.type = "missing" -> FallbackData
      [] stored.type = "invalid_json" -> FallbackData
      [] stored.type = "unreadable" -> Raised("OSError")
      [] OTHER -> stored

\* _load_data with every failure of the read caught
_load_data_catch_all(stored) ==
    IF stored.type \in {"missing", "invalid_json", "unreadable"} THEN FallbackData ELSE stored

\* random.sample(population, k): every choice of k distinct positions, in every order
Sample(population, k) ==
    {[i \in 1..k |-> population[f[i]]] :
        f \in {g \in [1..k -> 1..Len(population)] : \A a, b \in 1..k : a # b => g[a] # g[b]}}

\* random.choice(population) if population else None
ChoiceOrNone(population) ==
    IF population = <<>> THEN {<<>>} ELSE {<<population[i]>> : i \in 1..Len(population)}

\* any(keyword in format_item["keywords"] for keyword in format_item["keywords"])
FormatMatches(format_item) == format_item.keywords # <<>>

\* the positions of the formats the loop of lines 108-111 looks at
FormatsLookedAt(formats) ==
    {i \in 1..Len(formats) :
        \A j \in 1..(i - 1) : "keywords" \in DOMAIN formats[j] /\ ~FormatMatches(formats[j])}

\* line 110 raises KeyError: topics were given and a format the loop reaches has
\* no "keywords"
FormatLookupRaises(d, ents) ==
    LET formats == Get(d, "formats", <<>>)
    IN  /\ Get(ents, <<"topic", "s">>, <<>>) # <<>>
        /\ \E i \in FormatsLookedAt(formats) : "keywords" \notin DOMAIN formats[i]

\* lines 104-114: the formats the method may return
_get_matching_format(d, ents) ==
    LET formats == Get(d, "formats", <<>>)
        hit == {i \in FormatsLookedAt(formats) : FormatMatches(formats[i])}
    IN  IF Get(ents, <<"topic", "s">>, <<>>) # <<>> /\ hit # {}
        THEN {<<formats[Min(hit)]>>}
        ELSE ChoiceOrNone(formats)

\* lines 126-137
_get_visual_style(d, ents) ==
    LET styles == Get(d, "visual_styles", <<>>)
        all_keywords == Get(ents, <<"product", "s">>, <<>>) \o Get(ents, <<"topic", "s">>, <<>>)
        joined == Join(all_keywords, <<" ">>)
        Matches(style) ==
            \E k \in 1..Len(Get(style, "keywords", <<>>)) : Contains(joined, style.keywords[k])
        hit == {i \in 1..Len(styles) : Matches(styles[i])}
    IN  IF hit # {} THEN {<<styles[Min(hit)]>>} ELSE ChoiceOrNone(styles)

Min2(a, b) == IF a < b THEN a ELSE b

HooksPerBundle == 3

CtasPerBundle == 2

SoundsPerBundle == 3

\* lines 149-150
_get_hooks(d) ==
    Sample(Get(d, "hooks", <<>>), Min2(HooksPerBundle, Len(Get(d, "hooks", <<>>))))

\* lines 159-160
_get_ctas(d) ==
    Sample(Get(d, "cta", <<>>), Min2(CtasPerBundle, Len(Get(d, "cta", <<>>))))

\* category.replace("_", "").replace("s", "")
EntityKeyOf(category) == SelectSeq(category, LAMBDA t : t \notin {"_", "s"})

\* list(dict.fromkeys(xs)): the first occurrence of each entry, in order
RECURSIVE Dedup(_)
Dedup(xs) ==
    IF xs = <<>> THEN <<>>
    ELSE LET init == Dedup(SubSeq(xs, 1, Len(xs) - 1))
             last == xs[Len(xs)]
         IN  IF \E i \in 1..Len(init) : init[i] = last THEN init ELSE Append(init, last)

\* lines 175-180: the hashtags of the categories that match, in catalog order
RECURSIVE CategoryHashtags(_, _)
CategoryHashtags(items, ents) ==
    IF items = <<>> THEN <<>>
    ELSE LET category == items[1][1]
             all_entities == Join(Get(ents, EntityKeyOf(category), <<>>), <<" ">>)
         IN  (IF category # <<"general">> /\ Contains(LowerText(all_entities), category)
              THEN items[1][2] ELSE <<>>)
             \o CategoryHashtags(Tail(items), ents)

\* lines 172-186 without the last line: every collected hashtag, as collected
_get_hashtags_unlimited(d, ents) ==
    CategoryHashtags(Get(d, "hashtags", <<>>), ents)
        \o ItemsGet(Get(d, "hashtags", <<>>), <<"general">>, <<>>)

\* lines 172-186
_get_hashtags(d, ents) ==
    LET hashtags_data == Get(d, "hashtags", <<>>)
    IN  Take(Dedup(CategoryHashtags(hashtags_data, ents)
                     \o ItemsGet(hashtags_data, <<"general">>, <<>>)),
             HashtagLimit)

\* lines 195-196
_get_sound_suggestions(d) == Take(Get(d, "sounds", <<>>), SoundsPerBundle)

\* lines 82-92: every bundle inject may return on the catalog in memory, or the
\* exception that leaves it
inject(catalog, ents) ==
    IF catalog.type # "dict" THEN {Raised("AttributeError")}
    ELSE IF FormatLookupRaises(catalog.value, ents) THEN {Raised("KeyError")}
    ELSE LET d == catalog.value
         IN  {[format |-> f, visual_style |-> v, hooks |-> h, ctas |-> c,
               hashtags |-> _get_hashtags(d, ents),
               sound_suggestions |-> _get_sound_suggestions(d)] :
                  f \in _get_matching_format(d, ents), v \in _get_visual_style(d, ents),
                  h \in _get_hooks(d), c \in _get_ctas(d)}

\* dict.update(new_data): the keys of new_data replace those of d, the others stay
DictUpdate(d, new_data) ==
    [key \in DOMAIN d \cup DOMAIN new_data |->
        IF key \in DOMAIN new_data THEN new_data[key] ELSE d[key]]

\* lines 207-216: update_data on the catalog in memory and the stored document,
\* new_data a mapping; write_ok tells whether opening and writing the file works
update_data(catalog, stored, new_data, write_ok) ==
    IF catalog.type # "dict"
    THEN [data |-> catalog, file |-> stored, ret |-> FALSE]        \* AttributeError, caught
    ELSE LET merged == Dict(DictUpdate(catalog.value, new_data))
         IN  IF write_ok THEN [data |-> merged, file |-> merged, ret |-> TRUE]
             ELSE [data |-> merged, file |-> stored, ret |-> FALSE]

(***************************************************************************)
(* Inputs.                                                                 *)
(***************************************************************************)
BundleTag(i) == <<"#", ToString(i)>>

Bundles ==
    {[hashtags |-> [i \in 1..k |-> BundleTag(i)]] : k \in {0, 3, MaxBundleTags}}
        \cup {[hooks |-> <<>>]}

HashtagLinePool ==
    { <<"#", " ", "HASHTAGS">>,        \* # HASHTAGS
      <<"#", "a", " ", "#", "b">>,     \* #a #b
      <<"#", "b">>,                    \* #b
      <<"x", " ", "#", "a">>,          \* x #a
      <<"#", " ", "NOTES">>,           \* # NOTES
      <<"---">>,
      <<>> }

HashtagTexts == TextsOver(HashtagLinePool, MaxLines)

VisualLinePool ==
    { <<"#", " ", "VISUAL", " ", "SPECIFICATIONS">>,                \* # VISUAL SPECIFICATIONS
      <<"Visual", " ", "look">>,                                     \* Visual look
      <<"|", " ", "Element", " ", "|", " ", "Value", " ", "|">>,     \* | Element | Value |
      <<"|", "---", "|", "---", "|">>,                               \* |---|---|
      <<"|", " ", "Style", " ", "|", " ", "S", " ", "|">>,           \* | Style | S |
      <<"|", " ", "Camera", " ", "|", " ", "C", " ", "|">>,          \* | Camera | C |
      <<"|", " ", "Mood", " ", "|">>,                                \* | Mood |
      <<"#", " ", "SCRIPT">> }                                       \* # SCRIPT

VisualTexts == TextsOver(VisualLinePool, MaxLines)

\* the documented headings of the script sections
DocWord(section) ==
    CASE section = "hook" -> "Hook" [] section = "body" -> "Body" [] section = "cta" -> "CTA"

TimeRange(section) ==
    CASE section = "hook" -> "[0:00-0:03]"
      [] section = "body" -> "[0:03-0:45]"
      [] section = "cta" -> "[0:45-0:60]"

Content(section) ==
    CASE section = "hook" -> "X" [] section = "body" -> "Y" [] section = "cta" -> "Z"

ItemNumber(section) ==
    CASE section = "hook" -> "1" [] section = "body" -> "2" [] section = "cta" -> "3"

Sections == <<"hook", "body", "cta">>

WordIn(section, case) ==
    CASE case = "upper" -> Upper(DocWord(section))
      [] case = "lower" -> Lower(DocWord(section))
      [] OTHER -> DocWord(section)

HeadingForms == {"plain", "bold", "bold3", "h1", "h2", "h3", "h2bold", "numbered"}

HeadingLine(form, section, case, timed) ==
    LET w == <<WordIn(section, case)>>
        head == CASE form = "plain" -> w
                  [] form = "bold" -> <<"*", "*">> \o w \o <<"*", "*">>
                  [] form = "bold3" -> <<"*", "*", "*">> \o w \o <<"*", "*", "*">>
                  [] form = "h1" -> <<"#", " ">> \o w
                  [] form = "h2" -> <<"#", "#", " ">> \o w
                  [] form = "h3" -> <<"#", "#", "#", " ">> \o w
                  [] form = "h2bold" -> <<"#", "#", " ", "*", "*">> \o w \o <<"*", "*">>
                  [] form = "numbered" -> <<ItemNumber(section), ".", " ">> \o w
    IN  head \o (IF timed THEN <<" ", TimeRange(section)>> ELSE <<>>)

\* heading line, line break, content; nothing for an absent section
SectionBlock(form, section, case, timed) ==
    IF form = "absent" THEN <<>>
    ELSE << HeadingLine(form, section, case, timed) \o <<"\n", Content(section)>> >>

\* the blocks of the three sections, a blank line between two blocks
ScriptBody(forms, case, timed) ==
    Join(Flatten([i \in 1..3 |-> SectionBlock(forms[i], Sections[i], case, timed)]),
         <<"\n", "\n">>)

\* the documented form: "## Hook [0:00-0:03]\nX\n\n## Body [0:03-0:45]\nY\n\n## CTA [0:45-0:60]\nZ"
StandardScript == ScriptBody(<<"h2", "h2", "h2">>, "doc", TRUE)

SurroundingPrePool ==
    { <<"#", " ", "SCRIPT">>,          \* # SCRIPT
      <<"intro">>,
      <<"Hook", " ", "idea">> }        \* Hook idea

SurroundingPostPool ==
    { <<"note">>,
      <<"#", " ", "HASHTAGS">>,        \* # HASHTAGS
      <<"end", " ", "of", " ", "script">> }

MaxSurround == 1

NonEmptyText(t) == t # <<>>

\* at most MaxSurround lines before and after sections in the documented or the plain form
ScriptTexts ==
    {Join(SelectSeq(<<pre, ScriptBody(forms, "doc", forms[1] = "h2" \/ forms[2] = "h2"), post>>,
                 NonEmptyText), <<"\n">>) :
        pre \in {Join(ls, <<"\n">>) : ls \in UNION {[1..k -> SurroundingPrePool] : k \in 0..MaxSurround}},
        forms \in [1..3 -> {"absent", "h2", "plain"}],
        post \in {Join(ls, <<"\n">>) : ls \in UNION {[1..k -> SurroundingPostPool] : k \in 0..MaxSurround}}}

\* a "# SCRIPT" line, then the three sections, each absent or in one of the heading forms
HeadingTexts ==
    {Join(SelectSeq(<< <<"#", " ", "SCRIPT">>, ScriptBody(forms, case, timed) >>, NonEmptyText), <<"\n">>) :
        forms \in [1..3 -> HeadingForms \cup {"absent"}],
        case \in {"doc", "upper", "lower"},
        timed \in BOOLEAN}

StructureBlockPool ==
    { <<"#", " ", "MASTER", " ", "PROMPT", "\n", "\"", "P", "\"">>,                 \* # MASTER PROMPT / "P"
      <<"#", " ", "VISUAL", " ", "SPECIFICATIONS", "\n",
        "|", " ", "Style", " ", "|", " ", "S", " ", "|">>,                         \* # VISUAL SPECIFICATIONS / | Style | S |
      <<"#", " ", "SCRIPT", "\n", "#", "#", " ", "Hook", "\n", "X">>,              \* # SCRIPT / ## Hook / X
      <<"#", " ", "HASHTAGS", "\n", "#", "a", " ", "#", "b">>,                     \* # HASHTAGS / #a #b
      <<"|", " ", "Style", " ", "|">>,                                             \* | Style |
      <<>> }

MaxBlocks == 3

StructureTexts == TextsOver(StructureBlockPool, MaxBlocks)

(***************************************************************************)
(* The hashtag extractor applied to one text and one bundle.               *)
(***************************************************************************)
InitHashtags ==
    /\ pc = "start"
    /\ raw_response \in HashtagTexts
    /\ trending_elements \in Bundles
    /\ user_input = <<>>
    /\ ret = None
    /\ detect_outcome = None
    /\ NoInjector
    /\ NoEngine

ExtractHashtags ==
    /\ pc = "start"
    /\ pc' = "_extract_hashtags"
    /\ ret' = _extract_hashtags(raw_response, trending_elements)
    /\ UNCHANGED <<raw_response, trending_elements, user_input, detect_outcome>>
    /\ UNCHANGED <<injector_vars, engine_vars>>

NextHashtags == ExtractHashtags

SpecHashtags == InitHashtags /\ [][NextHashtags]_vars

(***************************************************************************)
(* The visual-specification and the hashtag extractor applied to texts     *)
(* whose section marker is written in several letter cases (SpecCase).     *)
(***************************************************************************)
\* the two words of the visual heading, and the hashtag heading, per letter case
MarkerCases == {"upper", "title", "lower", "mixed"}

VisualHeading(case) ==
    CASE case = "upper" -> <<"#", " ", "VISUAL", " ", "SPECIFICATIONS">>
      [] case = "title" -> <<"#", " ", "Visual", " ", "Specifications">>
      [] case = "lower" -> <<"#", " ", "visual", " ", "specifications">>
      [] case = "mixed" -> <<"#", " ", "ViSuAl", " ", "SpEcIfIcAtIoNs">>

HashtagsHeading(case) ==
    CASE case = "upper" -> <<"#", " ", "HASHTAGS">>
      [] case = "title" -> <<"#", " ", "Hashtags">>
      [] case = "lower" -> <<"#", " ", "hashtags">>
      [] case = "mixed" -> <<"#", " ", "HaShTaGs">>

VisualRowPool ==
    { <<"|", " ", "Style", " ", "|", " ", "S", " ", "|">>,
      <<"|", " ", "Camera", " ", "|", " ", "C", " ", "|">>,
      <<"#", " ", "SCRIPT">> }

TagLinePool ==
    { <<"#", "a", " ", "#", "b">>,
      <<"x", " ", "#", "a">>,
      <<"---">> }

MaxBodyLines == 2

\* a heading in one of the letter cases, then at most MaxBodyLines lines
CaseTexts ==
    {Join(<<head>> \o body, <<"\n">>) :
        head \in {VisualHeading(case) : case \in MarkerCases},
        body \in UNION {[1..k -> VisualRowPool] : k \in 0..MaxBodyLines}}
    \cup
    {Join(<<head>> \o body, <<"\n">>) :
        head \in {HashtagsHeading(case) : case \in MarkerCases},
        body \in UNION {[1..k -> TagLinePool] : k \in 0..MaxBodyLines}}

InitCase ==
    /\ pc = "start"
    /\ raw_response \in CaseTexts
    /\ trending_elements = [hashtags |-> <<Tag("viral")>>]
    /\ user_input = <<>>
    /\ ret = None
    /\ detect_outcome = None
    /\ NoInjector
    /\ NoEngine

(***************************************************************************)
(* The master-prompt extractor applied to one text.                        *)
(***************************************************************************)
MasterLinePool ==
    { <<"#", " ", "MASTER", " ", "PROMPT">>,          \* # MASTER PROMPT
      <<"the", " ", "MASTER", " ", "PROMPT">>,        \* the MASTER PROMPT
      <<"a">>,
      <<" ", "\"", "b", "\"", " ">>,                  \*  "b"
      <<>>,
      <<" ", "#", " ", "V">>,                         \*  # V
      <<"c", " ", "---">> }                           \* c ---

MasterTexts == TextsOver(MasterLinePool, MaxLines)

InitMaster ==
    /\ pc = "start"
    /\ raw_response \in MasterTexts
    /\ trending_elements = [hooks |-> <<>>]
    /\ user_input = <<>>
    /\ ret = None
    /\ detect_outcome = None
    /\ NoInjector
    /\ NoEngine

ExtractMasterPrompt ==
    /\ pc = "start"
    /\ pc' = "_extract_master_prompt"
    /\ ret' = _extract_master_prompt(raw_response)
    /\ UNCHANGED <<raw_response, trending_elements, user_input, detect_outcome>>
    /\ UNCHANGED <<injector_vars, engine_vars>>

NextMaster == ExtractMasterPrompt

SpecMaster == InitMaster /\ [][NextMaster]_vars

(***************************************************************************)
(* The visual-specification extractor applied to one text.                 *)
(***************************************************************************)
InitVisual ==
    /\ pc = "start"
    /\ raw_response \in VisualTexts
    /\ trending_elements = [hooks |-> <<>>]
    /\ user_input = <<>>
    /\ ret = None
    /\ detect_outcome = None
    /\ NoInjector
    /\ NoEngine

ExtractVisualSpecs ==
    /\ pc = "start"
    /\ pc' = "_extract_visual_specs"
    /\ ret' = _extract_visual_specs(raw_response)
    /\ UNCHANGED <<raw_response, trending_elements, user_input, detect_outcome>>
    /\ UNCHANGED <<injector_vars, engine_vars>>

NextVisual == ExtractVisualSpecs

SpecVisual == InitVisual /\ [][NextVisual]_vars

NextCase == ExtractVisualSpecs \/ ExtractHashtags

SpecCase == InitCase /\ [][NextCase]_vars

(***************************************************************************)
(* The script extractor applied to one text: sections in the documented    *)
(* or the plain form with surrounding lines (SpecScript), and sections in  *)
(* every heading form under a "# SCRIPT" line (SpecHeadings).              *)
(***************************************************************************)
\* a section with its content on the heading line: "## Hook: X", "1. Hook: X", "Hook: X"
InlineForms == {"h2", "numbered", "plain"}

InlineLine(form, section) ==
    IF form = "absent" THEN <<>>
    ELSE << HeadingLine(form, section, "doc", FALSE) \o <<":", " ", Content(section)>> >>

\* the lines of the three sections, one after the other or a blank line between them
InlineBody(forms, sep) ==
    Join(Flatten([i \in 1..3 |-> InlineLine(forms[i], Sections[i])]), sep)

\* with and without a "# SCRIPT" line in front
InlineTexts ==
    {Join(SelectSeq(<<pre, InlineBody(forms, sep)>>, NonEmptyText), <<"\n">>) :
        pre \in {<<>>, <<"#", " ", "SCRIPT">>},
        forms \in [1..3 -> InlineForms \cup {"absent"}],
        sep \in {<<"\n">>, <<"\n", "\n">>}}

\* the heading forms the patterns of lines 246-248 accept before the section word
RecognizedForms == {"plain", "bold", "h2", "h3"}

SectionOrders ==
    {o \in [1..3 -> 1..3] : \A a, b \in 1..3 : a # b => o[a] # o[b]}

\* a "# SCRIPT" line, then the three sections in any order, each in a recognized form
OrderTexts ==
    {<<"#", " ", "SCRIPT", "\n">>
        \o Join(Flatten([i \in 1..3 |->
                            SectionBlock(forms[order[i]], Sections[order[i]], "doc", FALSE)]),
                <<"\n", "\n">>) :
        order \in SectionOrders, forms \in [1..3 -> RecognizedForms]}

InitScript ==
    /\ pc = "start"
    /\ raw_response \in ScriptTexts
    /\ trending_elements = [hooks |-> <<>>]
    /\ user_input = <<>>
    /\ ret = None
    /\ detect_outcome = None
    /\ NoInjector
    /\ NoEngine

InitHeadings ==
    /\ pc = "start"
    /\ raw_response \in HeadingTexts
    /\ trending_elements = [hooks |-> <<>>]
    /\ user_input = <<>>
    /\ ret = None
    /\ detect_outcome = None
    /\ NoInjector
    /\ NoEngine

InitInline ==
    /\ pc = "start"
    /\ raw_response \in InlineTexts
    /\ trending_elements = [hooks |-> <<>>]
    /\ user_input = <<>>
    /\ ret = None
    /\ detect_outcome = None
    /\ NoInjector
    /\ NoEngine

InitOrders ==
    /\ pc = "start"
    /\ raw_response \in OrderTexts
    /\ trending_elements = [hooks |-> <<>>]
    /\ user_input = <<>>
    /\ ret = None
    /\ detect_outcome = None
    /\ NoInjector
    /\ NoEngine

ExtractScript ==
    /\ pc = "start"
    /\ pc' = "_extract_script"
    /\ ret' = _extract_script(raw_response)
    /\ UNCHANGED <<raw_response, trending_elements, user_input, detect_outcome>>
    /\ UNCHANGED <<injector_vars, engine_vars>>

NextScript == ExtractScript

SpecScript == InitScript /\ [][NextScript]_vars

SpecHeadings == InitHeadings /\ [][NextScript]_vars

SpecInline == InitInline /\ [][NextScript]_vars

SpecOrders == InitOrders /\ [][NextScript]_vars

(***************************************************************************)
(* _structure_result applied to one generated text and one bundle.         *)
(***************************************************************************)
InitStructure ==
    /\ pc = "start"
    /\ raw_response \in StructureTexts
    /\ trending_elements \in Bundles
    /\ user_input = <<>>
    /\ ret = None
    /\ detect_outcome = None
    /\ NoInjector
    /\ NoEngine

StructureResult ==
    /\ pc = "start"
    /\ \E language \in {"en", "id"} :
        /\ pc' = "_structure_result"
        /\ ret' = _structure_result([raw_response |-> raw_response], trending_elements, language)
    /\ UNCHANGED <<raw_response, trending_elements, user_input, detect_outcome>>
    /\ UNCHANGED <<injector_vars, engine_vars>>

NextStructure == StructureResult

SpecStructure == InitStructure /\ [][NextStructure]_vars

(***************************************************************************)
(* InputValidator applied to one raw input: validate on inputs around the  *)
(* length bounds (SpecValidate), _sanitize on inputs made of the fragments *)
(* of the dangerous patterns (SpecSanitize).                               *)
(***************************************************************************)
ValidateFragments == {"x", " ", "Z", "java", "script:", "<", ">", "review"}

SanitizeFragments == {"java", "script:", "JAVA", "on", "=", " ", "<", ">", "data:", "text/html"}

InputsOver(fragments, n) == UNION {[1..k -> fragments] : k \in 0..n}

InitValidate ==
    /\ pc = "start"
    /\ raw_response = <<>>
    /\ trending_elements = [hooks |-> <<>>]
    /\ user_input \in InputsOver(ValidateFragments, MaxFrags)
    /\ ret = None
    /\ detect_outcome = None
    /\ NoInjector
    /\ NoEngine

InitSanitize ==
    /\ pc = "start"
    /\ raw_response = <<>>
    /\ trending_elements = [hooks |-> <<>>]
    /\ user_input \in InputsOver(SanitizeFragments, MaxDangerFrags)
    /\ ret = None
    /\ detect_outcome = None
    /\ NoInjector
    /\ NoEngine

Validate ==
    /\ pc = "start"
    /\ \E detected \in DetectOutcomes :
        /\ pc' = "validate"
        /\ detect_outcome' =
            IF _validate_length(_sanitize(user_input)) THEN detected ELSE None
        /\ ret' = validate(user_input, detected)
    /\ UNCHANGED <<raw_response, trending_elements, user_input>>
    /\ UNCHANGED <<injector_vars, engine_vars>>

Sanitize ==
    /\ pc = "start"
    /\ pc' = "_sanitize"
    /\ ret' = _sanitize(user_input)
    /\ UNCHANGED <<raw_response, trending_elements, user_input, detect_outcome>>
    /\ UNCHANGED <<injector_vars, engine_vars>>

NextValidate == Validate

NextSanitize == Sanitize

SpecValidate == InitValidate /\ [][NextValidate]_vars

SpecSanitize == InitSanitize /\ [][NextSanitize]_vars

(***************************************************************************)
(* InputValidator applied to inputs holding markup: words, blanks, script  *)
(* tags and a dangerous scheme, in every order (SpecMarkup).               *)
(***************************************************************************)
OpenScriptTag == <<"<", "script", ">">>

CloseScriptTag == <<"<", "/", "script", ">">>

MarkupPiecePool ==
    { <<"x">>, <<" ">>, <<"alert">>, OpenScriptTag, CloseScriptTag, <<"java", "script:">> }

MaxPieces == 5

MarkupTexts == {Flatten(ps) : ps \in InputsOver(MarkupPiecePool, MaxPieces)}

InitMarkup ==
    /\ pc = "start"
    /\ raw_response = <<>>
    /\ trending_elements = [hooks |-> <<>>]
    /\ user_input \in MarkupTexts
    /\ ret = None
    /\ detect_outcome = None
    /\ NoInjector
    /\ NoEngine

NextMarkup == Validate \/ Sanitize

SpecMarkup == InitMarkup /\ [][NextMarkup]_vars

(***************************************************************************)
(* _extract_entities applied to one text made of keywords, their suffixes  *)
(* and prefixes, in both letter cases (SpecEntities).                      *)
(***************************************************************************)
EntityFragments == {"teen", "Teen", "s", "sad", "ness", "review", "hand", "phone", " "}

MaxEntityFrags == 4

InitEntities ==
    /\ pc = "start"
    /\ raw_response = <<>>
    /\ trending_elements = [hooks |-> <<>>]
    /\ user_input \in InputsOver(EntityFragments, MaxEntityFrags)
    /\ ret = None
    /\ detect_outcome = None
    /\ NoInjector
    /\ NoEngine

ExtractEntities ==
    /\ pc = "start"
    /\ pc' = "_extract_entities"
    /\ ret' = _extract_entities(user_input)
    /\ UNCHANGED <<raw_response, trending_elements, user_input, detect_outcome>>
    /\ UNCHANGED <<injector_vars, engine_vars>>

NextEntities == ExtractEntities

SpecEntities == InitEntities /\ [][NextEntities]_vars

(***************************************************************************)
(* One TrendingInjector: constructed on a stored document, then inject and *)
(* update_data calls in any order (SpecInjector).                          *)
(***************************************************************************)
CatalogHooks == 4

CatalogCtas == 3

GroupTags == 7

Numbered(prefix, n) == [i \in 1..n |-> <<prefix, ToString(i)>>]

TagsOf(group, n) == [i \in 1..n |-> <<"#", group, ToString(i)>>]

\* a catalog with more hooks, CTAs, sounds and hashtags than a bundle takes, two
\* hashtag groups besides general, and tags shared between the groups
RichCatalog ==
    Dict([formats |->
            << [name |-> "Story", platforms |-> <<"tiktok">>, keywords |-> <<>>],
               [name |-> "Review", platforms |-> <<"tiktok">>, keywords |-> << <<"review">> >>],
               [name |-> "Tutorial", platforms |-> <<"youtube">>,
                keywords |-> << <<"tutorial">> >>] >>,
          visual_styles |->
            << [name |-> "Clean", keywords |-> << <<"clean">> >>, style |-> "minimalist",
                camera |-> "close-up"],
               [name |-> "Glow", keywords |-> << <<"s", "kincare">> >>, style |-> "soft",
                camera |-> "macro"] >>,
          hooks |-> Numbered("hook", CatalogHooks),
          cta |-> Numbered("cta", CatalogCtas),
          hashtags |->
            << << <<"s", "kincare">>, TagsOf("skin", GroupTags) >>,
               << <<"topic", "s">>, <<Tag("viral")>> \o TagsOf("topic", GroupTags) >>,
               << <<"general">>, <<Tag("viral"), Tag("fyp")>> \o TagsOf("skin", 2) >> >>,
          sounds |-> Numbered("sound", SoundsPerBundle + 1)])

\* a document of the right type whose first format has no keywords
NoKeywordsCatalog ==
    Dict([formats |-> << [name |-> "POV", platforms |-> <<"tiktok">>] >>,
          hooks |-> <<"hook">>])

EmptyCatalog == Dict([key \in {} |-> <<>>])

\* the states of the resource at data_path
StoredDocuments ==
    { [type |-> "missing"], [type |-> "invalid_json"], [type |-> "unreadable"],
      [type |-> "list", value |-> <<>>],
      RichCatalog, NoKeywordsCatalog, EmptyCatalog }

\* entities as validate returns them, and a mapping with other keys
NoEntities ==
    (<<"product", "s">> :> <<>>) @@ (<<"topic", "s">> :> <<>>)
        @@ (<<"emotion", "s">> :> <<>>) @@ (<<"target", "_", "audience">> :> <<>>)

SkincareReview ==
    (<<"product", "s">> :> << <<"s", "kincare">> >>) @@ (<<"topic", "s">> :> << <<"review">> >>)
        @@ (<<"emotion", "s">> :> <<>>) @@ (<<"target", "_", "audience">> :> <<>>)

\* the entities of "tutorial video": one topic, which the second and later formats name
TutorialTopic ==
    (<<"product", "s">> :> <<>>) @@ (<<"topic", "s">> :> << <<"tutorial">> >>)
        @@ (<<"emotion", "s">> :> <<>>) @@ (<<"target", "_", "audience">> :> <<>>)

OtherKeys ==
    (<<"kincare">> :> << <<"s", "kincare">> >>) @@ (<<"topic">> :> << <<"Topic", "s">> >>)

EntitySets == {NoEntities, SkincareReview, TutorialTopic, OtherKeys}

\* new_data: another hashtag group only; other hooks only
NewHashtagGroup == [hashtags |-> << << <<"makeup">>, <<Tag("makeup")>> >> >>]

NewHooks == [hooks |-> <<"new hook">>]

NewData == {NewHashtagGroup, NewHooks}

Constructed == pc \in {"__init__", "inject", "update_data"}

InitInjector ==
    /\ pc = "start"
    /\ raw_response = <<>>
    /\ trending_elements = [hooks |-> <<>>]
    /\ user_input = <<>>
    /\ detect_outcome = None
    /\ data = None
    /\ file \in StoredDocuments
    /\ entities = None
    /\ readers = <<>>
    /\ NoEngine
    /\ ret = None

\* TrendingInjector(data_path), lines 19-21
Construct ==
    /\ pc = "start"
    /\ IF HasRaised(_load_data(file))
       THEN pc' = "__init__ raised" /\ ret' = _load_data(file) /\ data' = data
       ELSE pc' = "__init__" /\ ret' = None /\ data' = _load_data(file)
    /\ UNCHANGED <<raw_response, trending_elements, user_input, detect_outcome>>
    /\ UNCHANGED <<file, entities, readers, engine_vars>>

\* inject reads the catalog and changes nothing, so a call that follows another
\* inject returns what a call in its place returns: only calls that follow the
\* construction or an update are taken
Inject ==
    /\ pc \in {"__init__", "update_data"}
    /\ \E ents \in EntitySets :
        /\ entities' = ents
        /\ ret' \in inject(data, ents)
    /\ pc' = "inject"
    /\ UNCHANGED <<raw_response, trending_elements, user_input, detect_outcome>>
    /\ UNCHANGED <<data, file, readers, engine_vars>>

UpdateData ==
    /\ Constructed
    /\ \E new_data \in NewData, write_ok \in BOOLEAN :
        LET after == update_data(data, file, new_data, write_ok)
        IN  /\ data' = after.data
            /\ file' = after.file
            /\ ret' = after.ret
            /\ entities' = new_data
    /\ pc' = "update_data"
    /\ UNCHANGED <<raw_response, trending_elements, user_input, detect_outcome>>
    /\ UNCHANGED <<readers, engine_vars>>

NextInjector == Construct \/ Inject \/ UpdateData

SpecInjector == InitInjector /\ [][NextInjector]_vars

(***************************************************************************)
(* inject on worker threads while update_data runs on another thread of    *)
(* the same injector (SpecConcurrent).  A thread can be preempted between  *)
(* any two bytecodes: each helper of inject reads self.data once, and      *)
(* update_data merges (one dict.update call) and then writes the file.     *)
(***************************************************************************)
Readers == 2

\* the fields of the bundle in the order lines 83-88 compute them
InjectFields == <<"format", "visual_style", "hooks", "ctas", "hashtags", "sound_suggestions">>

\* what the helper of the field may return on the catalog d
FieldOutcomes(field, d, ents) ==
    CASE field = "format" -> _get_matching_format(d, ents)
      [] field = "visual_style" -> _get_visual_style(d, ents)
      [] field = "hooks" -> _get_hooks(d)
      [] field = "ctas" -> _get_ctas(d)
      [] field = "hashtags" -> {_get_hashtags(d, ents)}
      [] field = "sound_suggestions" -> {_get_sound_suggestions(d)}

CatalogBefore == FallbackData

NewHooksAndCtas == [hooks |-> <<"new hook">>, cta |-> <<"new cta">>]

CatalogAfter == Dict(DictUpdate(CatalogBefore.value, NewHooksAndCtas))

InitConcurrent ==
    /\ pc = "__init__"
    /\ raw_response = <<>>
    /\ trending_elements = [hooks |-> <<>>]
    /\ user_input = <<>>
    /\ detect_outcome = None
    /\ data = CatalogBefore
    /\ file = CatalogBefore
    /\ entities = SkincareReview
    /\ readers = [t \in 1..Readers |-> [done |-> 0, bundle |-> <<>>]]
    /\ NoEngine
    /\ ret = None

\* thread t runs the next helper of inject, lines 83-88
InjectStep(t) ==
    /\ readers[t].done < Len(InjectFields)
    /\ LET field == InjectFields[readers[t].done + 1]
       IN  \E value \in FieldOutcomes(field, data.value, entities) :
              readers' = [readers EXCEPT ![t] =
                            [done |-> readers[t].done + 1,
                             bundle |-> (field :> value) @@ readers[t].bundle]]
    /\ UNCHANGED <<pc, raw_response, trending_elements, user_input, detect_outcome>>
    /\ UNCHANGED <<data, file, entities, engine_vars, ret>>

\* line 208: self.data.update(new_data)
UpdateMerge ==
    /\ pc = "__init__"
    /\ pc' = "update_data merged"
    /\ data' = Dict(DictUpdate(data.value, NewHooksAndCtas))
    /\ UNCHANGED <<raw_response, trending_elements, user_input, detect_outcome>>
    /\ UNCHANGED <<file, entities, readers, engine_vars, ret>>

\* lines 209-212: the file is written, update_data returns True
UpdateWrite ==
    /\ pc = "update_data merged"
    /\ pc' = "update_data"
    /\ file' = data
    /\ ret' = TRUE
    /\ UNCHANGED <<raw_response, trending_elements, user_input, detect_outcome>>
    /\ UNCHANGED <<data, entities, readers, engine_vars>>

NextConcurrent == (\E t \in 1..Readers : InjectStep(t)) \/ UpdateMerge \/ UpdateWrite

SpecConcurrent == InitConcurrent /\ [][NextConcurrent]_vars

(***************************************************************************)
(* One PromptEngine: generate_prompt and export_last_generated calls in    *)
(* any order (SpecEngine).  The collaborators the engine calls are their   *)
(* outcomes: what the generation client returns or that it raises, and     *)
(* whether the formatter's calls work.                                     *)
(***************************************************************************)
\* every list a set may be turned into: list(set(...)) has no order to rely on
ListsOf(S) ==
    {f \in [1..Cardinality(S) -> S] : \A a, b \in 1..Cardinality(S) : a # b => f[a] # f[b]}

\* the entities dict of validate, as inject reads it
EntityDicts(found) ==
    {(<<"product", "s">> :> pr) @@ (<<"topic", "s">> :> to) @@ (<<"emotion", "s">> :> em)
        @@ (<<"target", "_", "audience">> :> au) :
        pr \in ListsOf(found.products), to \in ListsOf(found.topics),
        em \in ListsOf(found.emotions), au \in ListsOf(found.target_audience)}

\* PlatformOptimizer.PLATFORM_SPECS, its keys
PLATFORM_SPECS == <<"tiktok", "instagram", "youtube">>

\* PlatformOptimizer.__init__: no platforms, or an empty list, is all of them
PlatformsOf(platforms) == IF platforms = <<>> THEN PLATFORM_SPECS ELSE platforms

\* PlatformOptimizer.optimize_for_all_platforms: one entry per platform asked
\* for, whatever the content; a platform that is not known is optimized as tiktok
optimize_for_all_platforms(platforms) ==
    [p \in {platforms[i] : i \in 1..Len(platforms)} |->
        [platform |-> IF \E i \in 1..Len(PLATFORM_SPECS) : PLATFORM_SPECS[i] = p
                      THEN p ELSE "tiktok"]]

\* OutputFormatter.format_markdown and format_telegram_message
format_markdown(structured, platform_specifics) ==
    [markdown |-> structured, platforms |-> platform_specifics]

format_telegram_message(structured, platform_specifics) ==
    [telegram |-> structured, platforms |-> platform_specifics]

\* lines 47-51 and 124-129: the result of a call that fails
Failure(error, text) == [success |-> FALSE, error |-> error, user_input |-> text]

\* last_generated after a call that fails, emptied
ClearedByFailure(previous) == <<>>

\* last_generated after a call that fails: no line of a failing path assigns it
KeptByFailure(previous) == previous

\* a call of a collaborator, with the text it was given (<<>> when it is given no text)
Call(stage, text) == [stage |-> stage, text |-> text]

\* the user_input argument of the generation client, were it the raw input
GenerationInputRaw(text, validation_result) == text

\* lines 77-78: the user_input argument of the generation client
GenerationInput(text, validation_result) == validation_result.sanitized

\* lines 102-107: what a call that succeeds stores in last_generated
Generated(structured_result, platform_specifics) ==
    [structured |-> structured_result,
     markdown |-> format_markdown(structured_result, platform_specifics),
     telegram |-> format_telegram_message(structured_result, platform_specifics),
     platform_specifics |-> platform_specifics]

\* lines 109-122: the result of a call that succeeds
Success(text, validation_result, generated) ==
    [success |-> TRUE,
     user_input |-> text,
     sanitized_input |-> validation_result.sanitized,
     language |-> validation_result.language,
     entities |-> validation_result.entities,
     structured_result |-> generated.structured,
     markdown_output |-> generated.markdown,
     telegram_output |-> generated.telegram,
     platform_specifics |-> generated.platform_specifics]

\* a catalog with one choice for every random draw
SmallCatalog ==
    Dict([hooks |-> <<"hook">>,
          hashtags |-> << << <<"general">>, <<Tag("viral")>> >> >>])

\* too short; valid with two entities; valid once the markup and the double blank
\* are taken out
EngineInputs ==
    { <<"x">>, <<"review", " ", "s", "kincare">>,
      <<"x", "x", " ", " ", "<", "b", ">", "x", "x", "x">> }

\* what GroqClient.generate_prompt_from_input does: it returns a text, or raises
\* after its retries
GenerationOutcomes ==
    { [raises |-> TRUE, text |-> <<>>],
      [raises |-> FALSE, text |-> <<"#", " ", "HASHTAGS", "\n", "#", "a", " ", "#", "b">>] }

\* the platforms argument: left out, one platform, a platform that is not known
PlatformChoices == { <<>>, <<"youtube">>, <<"vine">> }

MaxExports == 1

InitEngine ==
    /\ pc = "__init__"
    /\ raw_response = <<>>
    /\ trending_elements = [hooks |-> <<>>]
    /\ user_input = <<>>
    /\ detect_outcome = None
    /\ data \in {SmallCatalog, [type |-> "list", value |-> <<>>]}
    /\ file = data
    /\ entities = None
    /\ readers = <<>>
    /\ last_generated = <<>>
    /\ exported = <<>>
    /\ calls = <<>>
    /\ bot = <<>>
    /\ ret = None

\* generate_prompt, lines 30-129: validation, then inject, the platform
\* specifics, the generation, the structuring and the formatting; the first of
\* them that fails ends the call with a failure result
GeneratePromptOn(text, platforms, detections, generations) ==
    /\ \E detected \in detections :
       \E validation_result \in {validate(text, detected)} :
        /\ user_input' = text
        /\ IF ~validation_result.valid
           THEN /\ ret' = Failure(validation_result.error, text)
                /\ last_generated' = KeptByFailure(last_generated)
                /\ calls' = <<Call("validate", text)>>
                /\ UNCHANGED <<detect_outcome, entities, trending_elements, raw_response>>
           ELSE \E ents \in EntityDicts(validation_result.entities) :
                \E te \in inject(data, ents) :
                \E generation \in generations, formatter_ok \in BOOLEAN :
                    /\ detect_outcome' = detected
                    /\ entities' = ents
                    /\ trending_elements' = te
                    /\ IF HasRaised(te)
                       THEN /\ ret' = Failure(te.raised, text)
                            /\ last_generated' = KeptByFailure(last_generated)
                            /\ calls' = <<Call("validate", text), Call("inject", <<>>)>>
                            /\ UNCHANGED raw_response
                       ELSE IF generation.raises
                       THEN /\ ret' = Failure("generation failed", text)
                            /\ last_generated' = KeptByFailure(last_generated)
                            /\ calls' = <<Call("validate", text), Call("inject", <<>>),
                                          Call("optimize_for_all_platforms", <<>>),
                                          Call("generate_prompt_from_input",
                                               GenerationInput(text, validation_result))>>
                            /\ UNCHANGED raw_response
                       ELSE /\ raw_response' = generation.text
                            /\ calls' = <<Call("validate", text), Call("inject", <<>>),
                                          Call("optimize_for_all_platforms", <<>>),
                                          Call("generate_prompt_from_input",
                                               GenerationInput(text, validation_result)),
                                          Call("_structure_result", generation.text)>>
                            /\ IF ~formatter_ok
                               THEN /\ ret' = Failure("formatter failed", text)
                                    /\ last_generated' = KeptByFailure(last_generated)
                               ELSE \E generated \in
                                       {Generated(
                                          _structure_result([raw_response |-> generation.text],
                                                            te, validation_result.language),
                                          optimize_for_all_platforms(PlatformsOf(platforms)))} :
                                    /\ ret' = Success(text, validation_result, generated)
                                    /\ last_generated' = <<generated>>
    /\ UNCHANGED <<data, file, readers, exported>>

\* a generate_prompt call on the engine, with any input and any platforms
GeneratePrompt ==
    /\ \E text \in EngineInputs, platforms \in PlatformChoices :
            GeneratePromptOn(text, platforms, DetectOutcomes, GenerationOutcomes)
    /\ pc' = "generate_prompt"
    /\ UNCHANGED bot

\* export_last_generated, lines 304-331; save_ok tells whether the formatter's
\* save call works.  The value returned is <<>> for None, <<file>> otherwise.
ExportLastGeneratedAs(format) ==
    /\ Len(exported) < MaxExports
    /\ \E save_ok \in BOOLEAN :
        IF last_generated = <<>> \/ format \notin {"md", "json"} \/ ~save_ok
        THEN ret' = <<>> /\ exported' = exported
        ELSE /\ ret' = <<[format |-> format,
                          content |-> IF format = "md" THEN last_generated[1].markdown
                                      ELSE [json |-> last_generated[1].structured]]>>
             /\ exported' = Append(exported, format)
    /\ UNCHANGED <<raw_response, trending_elements, user_input, detect_outcome>>
    /\ UNCHANGED <<injector_vars, last_generated, calls>>

ExportLastGenerated ==
    /\ \E format \in {"md", "json", "txt"} : ExportLastGeneratedAs(format)
    /\ pc' = "export_last_generated"
    /\ UNCHANGED bot

NextEngine == GeneratePrompt \/ ExportLastGenerated

SpecEngine == InitEngine /\ [][NextEngine]_vars

(***************************************************************************)
(* TelegramBot: the users of one bot, which has one PromptEngine           *)
(* (SpecBot).  A handler runs on the event loop up to its await; the       *)
(* generate_prompt call it awaits runs on a worker thread and other        *)
(* handlers run meanwhile.  bot.pending[u] is the input of user u's        *)
(* request in flight, bot.own[u] what u's last successful generation       *)
(* produced, bot.received[u] the last message sent to u, bot.user the      *)
(* user whose handler ran last.                                            *)
(***************************************************************************)
Users == 2

\* the inputs a user sends: an idea, and one that is too short
UserIdeas == { <<"review", " ", "s", "kincare">>, <<"x">> }

\* what the generation client does with the request of user u
GenerationFor(u) ==
    { [raises |-> TRUE, text |-> <<>>],
      [raises |-> FALSE, text |-> <<"prompt", " ", "for", " ", "user", " ", ToString(u)>>] }

\* what langdetect makes of the users' ideas, which are in Indonesian
IdeaDetection == {"id"}

Message(kind, content) == <<[kind |-> kind, content |-> content]>>

InitBot ==
    /\ pc = "__init__"
    /\ raw_response = <<>>
    /\ trending_elements = [hooks |-> <<>>]
    /\ user_input = <<>>
    /\ detect_outcome = None
    /\ data = SmallCatalog
    /\ file = data
    /\ entities = None
    /\ readers = <<>>
    /\ last_generated = <<>>
    /\ exported = <<>>
    /\ calls = <<>>
    /\ bot = [pending |-> [u \in 1..Users |-> <<>>],
              own |-> [u \in 1..Users |-> <<>>],
              received |-> [u \in 1..Users |-> <<>>],
              user |-> 0]
    /\ ret = None

\* generate_command, lines 85-102, up to the await: the input is handed to a
\* worker thread
GenerateCommand(u) ==
    /\ bot.pending[u] = <<>>
    /\ \E idea \in UserIdeas :
            bot' = [bot EXCEPT !.pending[u] = <<idea>>, !.user = u]
    /\ pc' = "generate_command"
    /\ UNCHANGED <<raw_response, trending_elements, user_input, detect_outcome>>
    /\ UNCHANGED <<injector_vars, last_generated, exported, calls, ret>>

\* the worker thread runs engine.generate_prompt to its end, and the handler
\* goes on after the await, lines 104-116: it sends the error or the prompt
GenerateCompleted(u) ==
    /\ bot.pending[u] # <<>>
    /\ GeneratePromptOn(bot.pending[u][1], <<>>, IdeaDetection, GenerationFor(u))
    /\ bot' = [bot EXCEPT !.pending[u] = <<>>,
                          !.user = u,
                          !.own[u] = IF ret'.success THEN last_generated' ELSE @,
                          !.received[u] = IF ret'.success
                                          THEN Message("prompt", ret'.telegram_output)
                                          ELSE Message("error", ret'.error)]
    /\ pc' = "generate_completed"

\* export_command, lines 189-223: the file of engine.export_last_generated("md")
\* is sent to the user who asked, or the notice that there is nothing to export
ExportCommand(u) ==
    /\ ExportLastGeneratedAs("md")
    /\ bot' = [bot EXCEPT !.user = u,
                          !.received[u] = IF ret' = <<>> THEN Message("notice", <<>>)
                                          ELSE Message("file", ret'[1].content)]
    /\ pc' = "export_command"

NextBot ==
    \E u \in 1..Users : GenerateCommand(u) \/ GenerateCompleted(u) \/ ExportCommand(u)

SpecBot == InitBot /\ [][NextBot]_vars

(***************************************************************************)
(* Properties of _structure_result.                                        *)
(***************************************************************************)
ResultKeys ==
    {"master_prompt", "visual_specifications", "script", "hashtags", "language", "raw_response"}

\* C1: _structure_result returns a complete record for every generated text and
\* every bundle (no field missing, no script field or visual specification
\* empty); for the empty text master_prompt, hook, body and cta are "N/A", the
\* visual specifications are the defaults, and hashtags are the first 15 entries
\* of the bundle's hashtags.
C1_StructureNeverFails ==
    pc = "_structure_result" =>
        /\ DOMAIN ret = ResultKeys
        /\ DOMAIN ret.visual_specifications = SpecKeys
        /\ \A k \in SpecKeys : ret.visual_specifications[k] # <<>>
        /\ DOMAIN ret.script = {"hook", "body", "cta"}
        /\ \A f \in {"hook", "body", "cta"} : ret.script[f] # <<>>
        /\ ret.raw_response = raw_response
        /\ raw_response = <<>> =>
            /\ ret.master_prompt = <<"N/A">>
            /\ ret.script = [hook |-> <<"N/A">>, body |-> <<"N/A">>, cta |-> <<"N/A">>]
            /\ ret.visual_specifications =
                    [k \in SpecKeys |-> IF k = "Aspect Ratio" THEN <<"9:16">> ELSE <<"N/A">>]
            /\ Len(ret.hashtags) <= 15
            /\ ret.hashtags = SubSeq(BundleHashtags(trending_elements), 1, Len(ret.hashtags))
            /\ Len(BundleHashtags(trending_elements)) >= 15 => Len(ret.hashtags) = 15
            /\ Len(BundleHashtags(trending_elements)) < 15 =>
                    ret.hashtags = BundleHashtags(trending_elements)

\* the empty text structured against a bundle of more than 15 hashtags
C1_Witness ==
    /\ pc = "_structure_result"
    /\ raw_response = <<>>
    /\ Len(BundleHashtags(trending_elements)) > 15
    /\ Len(ret.hashtags) = 15
    /\ ret.master_prompt = <<"N/A">>

(***************************************************************************)
(* Properties of _extract_script.                                          *)
(***************************************************************************)
\* a fragment of the text spells "script" in some letter case
MentionsScript(s) == \E i \in 1..Len(s) : s[i] \in {"SCRIPT", "Script", "script"}

\* C2: a text that contains the three sections in the documented form yields
\* exactly {hook: X, body: Y, cta: Z}, whatever surrounds them.
C2_DocumentedFormRoundTrip ==
    (pc = "_extract_script" /\ Contains(raw_response, StandardScript)) =>
        ret = [hook |-> <<"X">>, body |-> <<"Y">>, cta |-> <<"Z">>]

\* C3: under a SCRIPT marker, a section whose heading is written in any of the
\* forms plain, double or triple emphasis, emphasis under ##, one to three #
\* levels or numbered item, in any letter case, with or without a time range,
\* yields its content; a section whose heading is absent stays "N/A".
C3_EveryHeadingFormRecognized ==
    pc = "_extract_script" =>
        \A i \in 1..3 :
            /\ (\E form \in HeadingForms, case \in {"doc", "upper", "lower"}, timed \in BOOLEAN :
                    Contains(<<"\n">> \o raw_response,
                             <<"\n">> \o SectionBlock(form, Sections[i], case, timed)[1]))
                => ret[Sections[i]] = <<Content(Sections[i])>>
            /\ (\A j \in 1..Len(raw_response) :
                    Lower(raw_response[j]) # Lower(DocWord(Sections[i])))
                => ret[Sections[i]] = <<"N/A">>

TableRow(key, value) == <<"|", " ", key, " ", "|", " ", value, " ", "|">>

\* Line j of the text stands in the visual-specification section: the text has
\* the section heading, a line carrying the marker stands before line j, and no
\* line with a "#" that is not a marker line stands between the first marker
\* line and line j.
InVisualSection(lines, j) ==
    LET markers == {i \in 1..Len(lines) :
                        Contains(lines[i], <<"VISUAL">>) \/ Contains(lines[i], <<"Visual">>)}
    IN  /\ \E i \in 1..Len(lines) :
                \/ Contains(lines[i], <<"VISUAL", " ", "SPECIFICATIONS">>)
                \/ Contains(lines[i], <<"Visual", " ", "Specifications">>)
        /\ \E m \in markers : m < j
        /\ j \notin markers
        /\ \A i \in 1..(j - 1) :
                (i > Min(markers) /\ i \notin markers) => ~Contains(lines[i], <<"#">>)

HasRowInSection(raw, key, value) ==
    \E j \in 1..Len(SplitOn(raw, "\n")) :
        /\ SplitOn(raw, "\n")[j] = TableRow(key, value)
        /\ InVisualSection(SplitOn(raw, "\n"), j)

\* C5: the result always has exactly the five keys; Style = S and Camera = C
\* when the section's table has the rows | Style | S | and | Camera | C |; a key
\* without a row in the section keeps its default (rows with other keys, rows
\* with fewer than two parts and rows outside the section change nothing).
C5_VisualSpecsFromTable ==
    pc = "_extract_visual_specs" =>
        /\ DOMAIN ret = {"Style", "Camera", "Lighting", "Aspect Ratio", "Mood"}
        /\ HasRowInSection(raw_response, "Style", "S") => ret["Style"] = <<"S">>
        /\ HasRowInSection(raw_response, "Camera", "C") => ret["Camera"] = <<"C">>
        /\ ~HasRowInSection(raw_response, "Style", "S") => ret["Style"] = <<"N/A">>
        /\ ~HasRowInSection(raw_response, "Camera", "C") => ret["Camera"] = <<"N/A">>
        /\ ret["Lighting"] = <<"N/A">>
        /\ ret["Mood"] = <<"N/A">>
        /\ ret["Aspect Ratio"] = <<"9:16">>

\* heading, separator row, Style row, Camera row
C5_Witness ==
    /\ pc = "_extract_visual_specs"
    /\ Contains(raw_response,
                <<"VISUAL", " ", "SPECIFICATIONS", "\n">> \o <<"|", "---", "|", "---", "|", "\n">>
                    \o TableRow("Style", "S") \o <<"\n">> \o TableRow("Camera", "C"))
    /\ ret["Style"] = <<"S">>
    /\ ret["Camera"] = <<"C">>
    /\ ret["Lighting"] = <<"N/A">>

(***************************************************************************)
(* Properties of _extract_hashtags.  The hashtag section of the            *)
(* specification: the lines after the marker line, up to the first         *)
(* heading-like line ("#", a blank, no further "#") or rule ("---").       *)
(***************************************************************************)
IsHeadingLike(line) ==
    StartsWith(Strip(line), <<"#", " ">>) /\ ~Contains(Tail(Strip(line)), <<"#">>)

MarkerLines(lines) ==
    {i \in 1..Len(lines) :
        Contains(lines[i], <<"HASHTAGS">>) \/ Contains(lines[i], <<"Hashtags">>)}

HashtagSection(lines) ==
    LET m == Min(MarkerLines(lines))
        ends == {j \in (m + 1)..Len(lines) :
                    IsHeadingLike(lines[j]) \/ Contains(lines[j], <<"---">>)}
    IN  SubSeq(lines, m + 1, IF ends = {} THEN Len(lines) ELSE Min(ends) - 1)

IsTagWord(w) == w[1] = "#"

\* the words of a line that begin with "#", the leading "#" removed
TagsOfLine(line) ==
    LET tagged == SelectSeq(SplitWs(line), IsTagWord)
    IN  [i \in 1..Len(tagged) |-> Tail(tagged[i])]

\* the tags of the section, in order of appearance, duplicates kept
TagsOfSection(raw) ==
    IF MarkerLines(SplitOn(raw, "\n")) = {} THEN <<>>
    ELSE LET section == HashtagSection(SplitOn(raw, "\n"))
         IN  Flatten([i \in 1..Len(section) |-> TagsOfLine(section[i])])

\* C6: with the marker present, every "#"-word on a line of the section is
\* returned without its leading "#", in order and with duplicates, whether the
\* tags share a line or each stands on a line of its own.
C6_EveryTagOfTheSectionReturned ==
    (/\ pc = "_extract_hashtags"
     /\ Cardinality(MarkerLines(SplitOn(raw_response, "\n"))) = 1
     /\ TagsOfSection(raw_response) # <<>>)
        => ret = TagsOfSection(raw_response)

\* C7: the result is the first 15 hashtags of the bundle exactly when the text
\* has no tag to extract (no marker, no line after the marker, or no "#"-word on
\* the section's lines); otherwise it is the extracted tags alone.
C7_FallbackExactlyWhenNoTag ==
    (/\ pc = "_extract_hashtags"
     /\ Cardinality(MarkerLines(SplitOn(raw_response, "\n"))) <= 1)
        => /\ (ret = SubSeq(BundleHashtags(trending_elements), 1,
                            IF Len(BundleHashtags(trending_elements)) < 15
                            THEN Len(BundleHashtags(trending_elements)) ELSE 15))
                <=> (TagsOfSection(raw_response) = <<>>)
           /\ TagsOfSection(raw_response) # <<>> => ret = TagsOfSection(raw_response)

(***************************************************************************)
(* Properties of InputValidator.                                           *)
(***************************************************************************)
\* C8: validate accepts exactly the inputs whose sanitized text has 5 to 2000
\* characters; a rejection names both bounds in its error and carries neither
\* language nor entities.
C8_ValidIffLengthInBounds ==
    pc = "validate" =>
        /\ ret.sanitized = _sanitize(user_input)
        /\ ret.valid <=> (5 <= StrLen(ret.sanitized) /\ StrLen(ret.sanitized) <= 2000)
        /\ ret.valid => {"language", "entities"} \subseteq DOMAIN ret
        /\ ~ret.valid =>
            /\ DOMAIN ret = {"valid", "error", "sanitized"}
            /\ Contains(ret.error, <<"5">>)
            /\ Contains(ret.error, <<"2000">>)

\* an input of valid raw length rejected for the length of its sanitized text
C8_Witness ==
    /\ pc = "validate"
    /\ ~ret.valid
    /\ 5 <= StrLen(user_input) /\ StrLen(user_input) <= 2000
    /\ StrLen(ret.sanitized) < 5

\* C9 as stated: the error of a rejection carries the minimum bound, the maximum
\* bound and the actual length of the sanitized text.
C9_ErrorCarriesActualLength ==
    (pc = "validate" /\ ~ret.valid) =>
        /\ Contains(ret.error, <<"5">>)
        /\ Contains(ret.error, <<"2000">>)
        /\ \/ Contains(ret.error, <<ToString(StrLen(ret.sanitized))>>)
           \/ "length" \in DOMAIN ret

\* C9 as amended: the error of a rejection carries the minimum and the maximum
\* bound and is the same for every rejected length; the actual length is not
\* returned, and the rejection carries the sanitized text itself.
C9_ErrorCarriesBoundsOnly ==
    (pc = "validate" /\ ~ret.valid) =>
        /\ Contains(ret.error, <<"5">>)
        /\ Contains(ret.error, <<"2000">>)
        /\ ret.error = <<"Input must be between ", "5", " and ", "2000", " characters">>
        /\ "length" \notin DOMAIN ret
        /\ ret.sanitized = _sanitize(user_input)

\* a rejection for excess length: its error does not hold the length
C9_Witness ==
    /\ pc = "validate"
    /\ ~ret.valid
    /\ StrLen(ret.sanitized) > 2000
    /\ ~Contains(ret.error, <<ToString(StrLen(ret.sanitized))>>)

\* C10: the text returned by _sanitize holds no "javascript:", no
\* "data:text/html" and no on<word>= in any letter case.
C10_NoDangerousSubstringLeft ==
    pc = "_sanitize" =>
        \A i \in 1..Len(ret) :
            /\ ~LiteralAt(ret, i, <<"java", "script:">>)
            /\ ~LiteralAt(ret, i, <<"data:", "text/html">>)
            /\ MatchLen("on\\w+\\s*=", ret, i) = 0

(***************************************************************************)
(* Properties of _sanitize and validate on markup.                         *)
(***************************************************************************)
\* C11: the text returned by _sanitize holds no two consecutive whitespace
\* characters and neither starts nor ends with whitespace.
C11_NoWhitespaceRunLeft ==
    pc = "_sanitize" =>
        /\ \A i \in 1..(Len(ret) - 1) : ~(IsWs(ret[i]) /\ IsWs(ret[i + 1]))
        /\ ret # <<>> => ~IsWs(ret[1]) /\ ~IsWs(ret[Len(ret)])

\* the input holds exactly one "alert", enclosed in a <script>...</script> element
HasScriptElement(text) ==
    /\ Contains(text, OpenScriptTag \o <<"alert">> \o CloseScriptTag)
    /\ Cardinality({i \in 1..Len(text) : text[i] = "alert"}) = 1

\* C12: when the input holds a <script>...</script> element, the sanitized text
\* returned by validate holds neither the script tags nor the enclosed text.
C12_ScriptElementRemoved ==
    (pc = "validate" /\ HasScriptElement(user_input)) =>
        /\ ~Contains(ret.sanitized, OpenScriptTag)
        /\ ~Contains(ret.sanitized, CloseScriptTag)
        /\ ~Contains(ret.sanitized, <<"alert">>)

(***************************************************************************)
(* Properties of _extract_entities and _detect_language.                   *)
(***************************************************************************)
EntityKeys == {"products", "topics", "emotions", "target_audience"}

KeywordsOf(key) ==
    CASE key = "products" -> product_keywords
      [] key = "topics" -> topic_keywords
      [] key = "emotions" -> emotion_keywords
      [] key = "target_audience" -> audience_keywords

\* some alternative of some pattern of the list stands in the lower-cased text
SomeKeywordIn(keywords, text) ==
    \E p \in 1..Len(keywords) : \E k \in 1..Len(keywords[p]) :
        Contains(LowerText(text), keywords[p][k])

\* C13: _extract_entities returns exactly the four keys; each value is a set of
\* substrings of the lower-cased text, empty exactly when no keyword of the
\* category stands in the text; the result depends on the text alone.
C13_EntitiesFourSets ==
    pc = "_extract_entities" =>
        /\ DOMAIN ret = EntityKeys
        /\ \A key \in EntityKeys :
            /\ IsFiniteSet(ret[key])
            /\ \A e \in ret[key] : e # <<>> /\ Contains(LowerText(user_input), e)
            /\ ret[key] = {} <=> ~SomeKeywordIn(KeywordsOf(key), user_input)
        /\ ret = _extract_entities(user_input)

\* a keyword written twice, in two letter cases, is returned once; the other
\* categories are empty sets
C13_Witness ==
    /\ pc = "_extract_entities"
    /\ Cardinality({i \in 1..Len(user_input) : Lower(user_input[i]) = "teen"}) = 2
    /\ \E i \in 1..Len(user_input) : user_input[i] = "Teen"
    /\ ret.target_audience = {<<"teen">>}
    /\ ret.products = {} /\ ret.topics = {} /\ ret.emotions = {}

\* C14: when the language detector fails on the sanitized text, validate returns
\* valid with language "en" and no error; the failure does not come out of
\* validate.
C14_DetectorFailureGivesEnglish ==
    (pc = "validate" /\ detect_outcome = "LangDetectException") =>
        /\ ret.valid
        /\ ret.language = "en"
        /\ DOMAIN ret = {"valid", "sanitized", "language", "entities", "length"}

C14_Witness ==
    /\ pc = "validate"
    /\ detect_outcome = "LangDetectException"
    /\ ret.valid
    /\ ret.language = "en"

(***************************************************************************)
(* Properties of TrendingInjector.                                         *)
(***************************************************************************)
\* C15: constructing the injector never raises; when the stored document is
\* missing, unreadable or not a mapping the catalog in memory is the built-in
\* fallback, and every later inject returns a bundle.
C15_ConstructionNeverFails ==
    /\ pc # "__init__ raised"
    /\ (pc = "__init__" /\ file.type # "dict") => data = FallbackData
    /\ (pc = "inject" /\ file.type # "dict") => ~HasRaised(ret)

GroupNames(catalog) ==
    {Get(catalog.value, "hashtags", <<>>)[i][1] :
        i \in 1..Len(Get(catalog.value, "hashtags", <<>>))}

\* C16: an update_data that returns True keeps every hashtag group the catalog
\* had (also those new_data does not mention), and leaves the stored document
\* equal to the catalog in memory.
C16_UpdateKeepsNestedEntries ==
    [][(pc' = "update_data" /\ ret' = TRUE) =>
          /\ file' = data'
          /\ GroupNames(data) \subseteq GroupNames(data')]_vars

IsInjective(f) == \A a, b \in DOMAIN f : a # b => f[a] # f[b]

\* the entries of taken stand at distinct positions of population
DrawnFrom(taken, population) ==
    \E f \in [1..Len(taken) -> 1..Len(population)] :
        IsInjective(f) /\ \A i \in 1..Len(taken) : taken[i] = population[f[i]]

\* C18: a bundle has min(3, catalog hooks) hooks and min(2, catalog CTAs) CTAs,
\* each from a distinct catalog position, and at most 15 hashtags, none twice.
C18_BundleSizes ==
    (pc = "inject" /\ ~HasRaised(ret)) =>
        /\ Len(ret.hooks) = Min2(3, Len(Get(data.value, "hooks", <<>>)))
        /\ DrawnFrom(ret.hooks, Get(data.value, "hooks", <<>>))
        /\ Len(ret.ctas) = Min2(2, Len(Get(data.value, "cta", <<>>)))
        /\ DrawnFrom(ret.ctas, Get(data.value, "cta", <<>>))
        /\ Len(ret.hashtags) <= 15
        /\ IsInjective(ret.hashtags)

\* the catalog holds more than a bundle takes, and the limit of 15 cuts the list
C18_Witness ==
    /\ pc = "inject"
    /\ ~HasRaised(ret)
    /\ Len(Get(data.value, "hooks", <<>>)) > 3 /\ Len(ret.hooks) = 3
    /\ Len(Get(data.value, "cta", <<>>)) > 2 /\ Len(ret.ctas) = 2
    /\ Len(Dedup(_get_hashtags_unlimited(data.value, entities))) > 15
    /\ Len(_get_hashtags_unlimited(data.value, entities))
          > Len(Dedup(_get_hashtags_unlimited(data.value, entities)))
    /\ Len(ret.hashtags) = 15

\* the entities as validate returns them
ExtractedEntities == {NoEntities, SkincareReview}

\* the category name stands, in any letter case, in one of the entity values
NamedByEntities(category, ents) ==
    \E key \in DOMAIN ents : \E i \in 1..Len(ents[key]) :
        Contains(LowerText(ents[key][i]), LowerText(category))

RECURSIVE NamedCategoryHashtags(_, _)
NamedCategoryHashtags(items, ents) ==
    IF items = <<>> THEN <<>>
    ELSE (IF items[1][1] # <<"general">> /\ NamedByEntities(items[1][1], ents)
          THEN items[1][2] ELSE <<>>)
         \o NamedCategoryHashtags(Tail(items), ents)

\* C19: the bundle's hashtags are those of every non-general category named by
\* the extracted entity values, then those of general, without duplicates, cut
\* to 15.
C19_NamedCategoriesBeforeGeneral ==
    (pc = "inject" /\ ~HasRaised(ret) /\ entities \in ExtractedEntities) =>
        ret.hashtags =
            Take(Dedup(NamedCategoryHashtags(Get(data.value, "hashtags", <<>>), entities)
                         \o ItemsGet(Get(data.value, "hashtags", <<>>), <<"general">>, <<>>)),
                 15)

\* C17: every bundle an inject call returns while update_data runs is one that
\* inject returns on the catalog before the update or one that it returns on
\* the catalog after it.
C17_BundleFromOneCatalog ==
    \A t \in DOMAIN readers :
        readers[t].done = Len(InjectFields) =>
            readers[t].bundle \in inject(CatalogBefore, entities) \cup inject(CatalogAfter, entities)

(***************************************************************************)
(* Properties of PromptEngine.last_generated.                              *)
(***************************************************************************)
\* C20: a generate_prompt call that succeeds leaves its outputs in
\* last_generated, a call that fails leaves last_generated as it was; while
\* last_generated is None, export_last_generated returns None for every format
\* and writes no file.
C20_LastGeneratedIsLastSuccess ==
    [][/\ (pc' = "generate_prompt" /\ ret'.success) =>
            last_generated' = <<[structured |-> ret'.structured_result,
                                 markdown |-> ret'.markdown_output,
                                 telegram |-> ret'.telegram_output,
                                 platform_specifics |-> ret'.platform_specifics]>>
       /\ (pc' = "generate_prompt" /\ ~ret'.success) => last_generated' = last_generated
       /\ (pc' = "export_last_generated" /\ last_generated = <<>>) =>
            (ret' = <<>> /\ exported' = exported)]_vars

\* a call has failed after one that succeeded, and the outputs of the earlier
\* one are still there for export
C20_Witness ==
    /\ pc = "generate_prompt"
    /\ ~ret.success
    /\ last_generated # <<>>
    /\ exported # <<>>

(***************************************************************************)
(* Properties of _extract_script on content that stands on the heading     *)
(* line.                                                                   *)
(***************************************************************************)
\* the three sections on consecutive lines, all in the "## Hook: X" form or all in
\* the "1. Hook: X" form, with or without a "# SCRIPT" line in front
InlineScripts ==
    {Join(SelectSeq(<<pre, InlineBody([i \in 1..3 |-> form], <<"\n">>)>>, NonEmptyText),
          <<"\n">>) :
        pre \in {<<>>, <<"#", " ", "SCRIPT">>}, form \in {"h2", "numbered"}}

\* C21: when the content of each script section stands on the line of its heading
\* ("## Hook: X" or "1. Hook: X", Body and CTA likewise on the next lines),
\* _extract_script returns that content: {hook: X, body: Y, cta: Z}.
C21_InlineContentReturned ==
    (pc = "_extract_script" /\ raw_response \in InlineScripts) =>
        ret = [hook |-> <<"X">>, body |-> <<"Y">>, cta |-> <<"Z">>]

(***************************************************************************)
(* Properties of _get_matching_format.                                     *)
(***************************************************************************)
\* the positions of the formats whose keyword list shares a keyword with topics
FormatsSharingKeyword(formats, topics) ==
    {i \in 1..Len(formats) :
        \E k \in 1..Len(Get(formats[i], "keywords", <<>>)), t \in 1..Len(topics) :
            formats[i].keywords[k] = topics[t]}

\* C22: the format of a bundle is the first format of the catalog whose keyword
\* list shares a keyword with the extracted topics when there is one; otherwise
\* it is some format of the catalog, and None only when the catalog has no format.
C22_FirstFormatSharingKeyword ==
    (pc = "inject" /\ ~HasRaised(ret)) =>
        LET formats == Get(data.value, "formats", <<>>)
            sharing == FormatsSharingKeyword(formats, Get(entities, <<"topic", "s">>, <<>>))
        IN  IF sharing # {} THEN ret.format = <<formats[Min(sharing)]>>
            ELSE IF formats = <<>> THEN ret.format = <<>>
            ELSE \E i \in 1..Len(formats) : ret.format = <<formats[i]>>

(***************************************************************************)
(* Properties of _extract_master_prompt.                                   *)
(***************************************************************************)
\* the first line that holds the marker
FirstMarkerLine(lines) == Min({i \in 1..Len(lines) : Contains(lines[i], MasterPromptMarker)})

\* a line that, trimmed, starts with '#', or that contains "---"
IsPromptStop(line) == StartsWith(Strip(line), <<"#">>) \/ Contains(line, <<"---">>)

\* the first such line after line m, or the line after the last one
FirstStopAfter(lines, m) ==
    Min({j \in (m + 1)..Len(lines) : IsPromptStop(lines[j])} \cup {Len(lines) + 1})

\* the non-empty lines from..to, trimmed and without surrounding double quotes
RECURSIVE CleanedLines(_, _, _)
CleanedLines(lines, from, to) ==
    IF from > to THEN <<>>
    ELSE (IF Strip(lines[from]) # <<>> THEN <<StripChar(Strip(lines[from]), "\"")>> ELSE <<>>)
         \o CleanedLines(lines, from + 1, to)

\* C23: when the marker "MASTER PROMPT" occurs, the master prompt is the non-empty
\* lines after the marker line, trimmed and without surrounding double quotes,
\* joined by single spaces, up to but not including the first following line that
\* starts with '#' or contains "---"; nothing at or after that line and nothing
\* before the marker is in it.
C23_PromptLinesUpToStop ==
    (pc = "_extract_master_prompt" /\ Contains(raw_response, MasterPromptMarker)) =>
        LET lines == SplitOn(raw_response, "\n")
            m == FirstMarkerLine(lines)
        IN  ret = Join(CleanedLines(lines, m + 1, FirstStopAfter(lines, m) - 1), <<" ">>)

\* the same for the texts that hold the marker on one line only
C23_OneMarkerLine ==
    (/\ pc = "_extract_master_prompt"
     /\ Cardinality({i \in 1..Len(SplitOn(raw_response, "\n")) :
                        Contains(SplitOn(raw_response, "\n")[i], MasterPromptMarker)}) = 1) =>
        LET lines == SplitOn(raw_response, "\n")
            m == FirstMarkerLine(lines)
        IN  ret = Join(CleanedLines(lines, m + 1, FirstStopAfter(lines, m) - 1), <<" ">>)

(***************************************************************************)
(* Where the collection of hashtag lines ends.                             *)
(***************************************************************************)
\* the non-empty lines of a section, trimmed
RECURSIVE TrimmedLines(_)
TrimmedLines(section) ==
    IF section = <<>> THEN <<>>
    ELSE (IF Strip(section[1]) # <<>> THEN <<Strip(section[1])>> ELSE <<>>)
         \o TrimmedLines(Tail(section))

\* C24: the lines collected after the marker end before the first heading-like
\* line ('#', a blank, no further '#') or the first line that contains "---";
\* that line and the lines after it give no tag, and a line of hashtags does not
\* end the collection.
C24_CollectionEndsAtHeadingOrRule ==
    (/\ pc = "_extract_hashtags"
     /\ Cardinality(MarkerLines(SplitOn(raw_response, "\n"))) = 1) =>
        LET tags == ParseHashtagLines(TrimmedLines(HashtagSection(SplitOn(raw_response, "\n"))))
        IN  ret = IF tags # <<>> THEN tags ELSE HashtagFallback(trending_elements)

(***************************************************************************)
(* Properties of _extract_script on sections in any order.                 *)
(***************************************************************************)
\* C25: no part of the generated text is captured into more than one of hook,
\* body and cta, in whatever order the three headings stand and in whatever
\* recognized form they are written: the content of a section is in the value
\* of one field at most.
C25_NoTextInTwoFields ==
    pc = "_extract_script" =>
        \A f, g \in {"hook", "body", "cta"} :
            f # g => \A t \in {"X", "Y", "Z"} :
                        ~(Contains(ret[f], <<t>>) /\ Contains(ret[g], <<t>>))

(***************************************************************************)
(* The letter case of the section markers.                                 *)
(***************************************************************************)
\* a word of a section marker, in upper case
MarkerWordUpper(t) ==
    CASE t \in {"Visual", "visual", "ViSuAl"} -> "VISUAL"
      [] t \in {"Specifications", "specifications", "SpEcIfIcAtIoNs"} -> "SPECIFICATIONS"
      [] t \in {"Hashtags", "hashtags", "HaShTaGs"} -> "HASHTAGS"
      [] OTHER -> t

\* the text with its marker in upper case
WithUpperMarker(raw) == [i \in 1..Len(raw) |-> MarkerWordUpper(raw[i])]

\* C26: the markers of the visual-specification extractor and of the hashtag
\* extractor are recognized in every letter case: a text whose marker is in lower
\* or mixed case is parsed exactly like the text with the marker in upper case.
C26_MarkerInAnyLetterCase ==
    /\ pc = "_extract_visual_specs" =>
            ret = _extract_visual_specs(WithUpperMarker(raw_response))
    /\ pc = "_extract_hashtags" =>
            ret = _extract_hashtags(WithUpperMarker(raw_response), trending_elements)

\* the same for the markers in upper case and with initial capitals only
C26_UpperAndTitleCase ==
    (\/ Contains(raw_response, <<"Visual", " ", "Specifications">>)
     \/ Contains(raw_response, <<"Hashtags">>)) => C26_MarkerInAnyLetterCase

(***************************************************************************)
(* The order of the stages of generate_prompt.                             *)
(***************************************************************************)
\* the stages the statement names, in the order of the statement
NamedStages == <<"validate", "inject", "generate_prompt_from_input", "_structure_result">>

IsNamedStage(call) == \E i \in 1..Len(NamedStages) : NamedStages[i] = call.stage

IsGeneration(call) == call.stage = "generate_prompt_from_input"

StageNames(cs) == [i \in 1..Len(cs) |-> cs[i].stage]

\* C27: in every generate_prompt call the stages run in the order validation,
\* trending selection, external generation, structuring; the generation client is
\* called at most once, only after a successful validation and with the sanitized
\* text; when validation fails neither trending selection nor the generation
\* client is called.
C27_StagesInOrder ==
    pc = "generate_prompt" =>
        LET named == StageNames(SelectSeq(calls, IsNamedStage))
            generations == SelectSeq(calls, IsGeneration)
        IN  /\ named = SubSeq(NamedStages, 1, Len(named))
            /\ Len(named) >= 1
            /\ Len(generations) <= 1
            /\ generations # <<>> =>
                    /\ _validate_length(_sanitize(user_input))
                    /\ generations[1].text = _sanitize(user_input)
            /\ ~_validate_length(_sanitize(user_input)) => named = <<"validate">>

\* a call that went through all stages on an input that sanitizing changes
C27_Witness ==
    /\ pc = "generate_prompt"
    /\ ret.success
    /\ _sanitize(user_input) # user_input
    /\ Len(calls) = 5
    /\ calls[4] = Call("generate_prompt_from_input", ret.sanitized_input)

(***************************************************************************)
(* update_data that fails.                                                 *)
(***************************************************************************)
\* C28: when update_data returns False the catalog in memory is what it was
\* before the call, so that a later inject sees nothing of the rejected data.
C28_FailedUpdateLeavesCatalog ==
    [][(pc' = "update_data" /\ ret' = FALSE) => data' = data]_vars

(***************************************************************************)
(* The entries of the hashtags list.                                       *)
(***************************************************************************)
\* C29: every entry of the hashtags list of the structured result is a non-empty
\* string without a '#', whether the list was extracted from the generated text
\* or taken from the bundle.
C29_HashtagsAreBareWords ==
    pc = "_structure_result" =>
        \A i \in 1..Len(ret.hashtags) :
            ret.hashtags[i] # <<>> /\ ~Contains(ret.hashtags[i], <<"#">>)

(***************************************************************************)
(* What /export sends.                                                     *)
(***************************************************************************)
\* C30: the file /export sends to a user is the prompt of that user's own most
\* recent successful generation, for every interleaving of the generate and
\* export requests of two users; no user is sent a prompt generated for the
\* other.
C30_ExportSendsOwnPrompt ==
    [][(pc' = "export_command" /\ ret' # <<>>) =>
          /\ bot.own[bot'.user] # <<>>
          /\ ret'[1].content = bot.own[bot'.user][1].markdown]_vars

====
